---------------------------- MODULE Spec2Model ----------------------------
(***************************************************************************)
(* State-machine model of the SSWH backend (multi-tenant control plane for *)
(* solar water heaters): device-token authentication, tenant enforcement,  *)
(* the command queue, entitlement gate, telemetry ingest and the alert     *)
(* evaluator.  A handler whose later writes depend on what it read or      *)
(* computed earlier is split at its store round-trips (the suspension      *)
(* points of the server), so concurrent requests interleave where the      *)
(* running code can.                                                       *)
(***************************************************************************)
EXTENDS Integers, Sequences, FiniteSets, TLC

VARIABLES
    authIn,        \* last request given to authenticateDevice
    authOut,       \* its outcome
    resp,          \* last HTTP response of a user-facing endpoint
    entitlements,  \* Entitlement table
    commands,      \* Command table (sequence; the index is the row id)
    creates,       \* POST /:id/commands requests in flight
    polls,         \* GET /:id/commands/pending requests in flight
    pollLog,       \* responses of completed polls, in completion order
    clock,         \* wall clock read by new Date()
    audit,         \* AuditLog table
    auditUp,       \* whether the store accepts writes of AuditLog rows
    telemetry,     \* Telemetry table (sequence; the index is the row id)
    devices,       \* mutable Device columns (lastSeenAt, device geo)
    twins,         \* DeviceTwin table
    sites,         \* Site table
    ingests,       \* POST /api/ingest/telemetry requests in flight
    ingestCount,   \* number of ingest calls accepted so far
    rules,         \* AlertRule table
    alerts,        \* AlertEvent table (sequence; the index is the row id)
    notifications, \* NotificationEvent table
    sweeps,        \* evaluateAlerts runs in flight
    otaJobs,       \* OtaJob table (sequence; the index is the row id)
    reports,       \* POST /devices/:id/ota/report requests in flight
    firmwareVersion, \* Device.firmwareVersion
    firmware,      \* FirmwarePackage table: the version of each row
    serials,       \* Device table: (tenantId, serialNumber) of each row
    registers,     \* POST /api/devices requests in flight
    outbox,        \* NotificationEvent rows as the consumer reads them, by age
    runs,          \* processNotificationQueue runs in flight
    tenants        \* Tenant table: name and status of each tenant

\* The firmware-update tables, which only the OTA routes touch.
otaVars == <<otaJobs, reports, firmwareVersion>>
regVars == <<firmware, serials, registers, outbox, runs, tenants>>

vars == <<authIn, authOut, resp, entitlements, commands, creates, polls,
          pollLog, clock, audit, auditUp, telemetry, devices, twins, sites, ingests,
          ingestCount, rules, alerts, notifications, sweeps, otaJobs, reports,
          firmwareVersion, firmware, serials, registers, outbox, runs, tenants>>

-----------------------------------------------------------------------------
(* The fixed fleet: tenants, users, memberships, devices, sites.           *)

NULL == "null"          \* SQL NULL / JS null / undefined, in a string-valued place
NullNum == 0 - 9999     \* the same, in a number-valued place
NoTenant == "none"      \* no tenant id supplied

Tenants == {"tA", "tB"}
Users == {"uA", "uB", "uE", "uO", "uP"}
DeviceIds == {"d1", "d2"}
SiteIds == {"s1", "s2"}

Roles == {"PLATFORM_ADMIN", "TENANT_ADMIN", "INSTALLER", "SUPPORT_AGENT", "END_USER"}

\* Membership rows (userId, tenantId, role); unique on (userId, tenantId).
Memberships ==
    { [userId |-> "uA", tenantId |-> "tA", role |-> "TENANT_ADMIN"],
      [userId |-> "uB", tenantId |-> "tB", role |-> "TENANT_ADMIN"],
      [userId |-> "uE", tenantId |-> "tA", role |-> "END_USER"],
      [userId |-> "uE", tenantId |-> "tB", role |-> "TENANT_ADMIN"],
      [userId |-> "uO", tenantId |-> "tA", role |-> "END_USER"],
      [userId |-> "uP", tenantId |-> "tA", role |-> "PLATFORM_ADMIN"] }

\* Device.tenantId, Device.siteId, Site.tenantId: set at registration, never
\* changed by any operation modelled here.
DeviceTenant == [d \in DeviceIds |-> IF d = "d1" THEN "tA" ELSE "tB"]
DeviceSite == [d \in DeviceIds |-> IF d = "d1" THEN "s1" ELSE "s2"]
SiteTenant == [s \in SiteIds |-> IF s = "s1" THEN "tA" ELSE "tB"]
DeviceOwner == [d \in DeviceIds |-> IF d = "d1" THEN "uO" ELSE "uB"]

\* loadUserContext: prisma.membership.findMany({where: {userId}})
loadUserContext(u) == { m \in Memberships : m.userId = u }

isPlatformAdmin(mem) == \E m \in mem : m.role = "PLATFORM_ADMIN"

-----------------------------------------------------------------------------
(* Device-token authentication.                                            *)

DigestBytes == 1        \* bytes of the digest (32 for SHA-256), scaled down
MaxTokenLen == 5        \* longest bearer token tried

\* Symbols of a bearer token: device ids are atoms, then ':' and characters
\* that are lower-case hex, upper-case hex, or not hex at all.
TokenAlphabet == DeviceIds \cup {":", "a", "1", "A", "g"}

HexDigits == <<"0", "1", "2", "3", "4", "5", "6", "7", "8", "9",
               "a", "b", "c", "d", "e", "f">>

\* Value of a character as a hex digit, -1 if it is none (Node accepts
\* both cases).
HexVal(c) ==
    IF \E i \in 1..16 : HexDigits[i] = c
    THEN (CHOOSE i \in 1..16 : HexDigits[i] = c) - 1
    ELSE CASE c = "A" -> 10 [] c = "B" -> 11 [] c = "C" -> 12
           [] c = "D" -> 13 [] c = "E" -> 14 [] c = "F" -> 15
           [] OTHER -> -1

\* digest('hex'): two lower-case hex digits per byte.
RECURSIVE HexEncode(_)
HexEncode(bytes) ==
    IF bytes = <<>> THEN <<>>
    ELSE <<HexDigits[(Head(bytes) \div 16) + 1], HexDigits[(Head(bytes) % 16) + 1]>>
         \o HexEncode(Tail(bytes))

\* Buffer.from(s, 'hex'): decodes pairs of hex digits and stops at the first
\* pair that is not hex (or at a trailing single character).
RECURSIVE BufferFromHex(_)
BufferFromHex(s) ==
    IF Len(s) < 2 THEN <<>>
    ELSE IF HexVal(s[1]) < 0 \/ HexVal(s[2]) < 0 THEN <<>>
    ELSE <<HexVal(s[1]) * 16 + HexVal(s[2])>> \o BufferFromHex(SubSeq(s, 3, Len(s)))

\* token.split(':')
RECURSIVE Split(_, _)
Split(s, cur) ==
    IF s = <<>> THEN <<cur>>
    ELSE IF Head(s) = ":" THEN <<cur>> \o Split(Tail(s), <<>>)
    ELSE Split(Tail(s), Append(cur, Head(s)))

\* createHmac('sha256', config.deviceHmacSecret).update(deviceId).digest():
\* a fixed keyed function of the device-id string; distinct registered ids
\* get distinct digests.
SymCode(c) == CASE c = "d1" -> 0 [] c = "d2" -> 1 [] c = "a" -> 2
                [] c = "1" -> 3 [] c = "A" -> 2 [] OTHER -> 1
RECURSIVE StrCode(_)
StrCode(s) == IF s = <<>> THEN 0 ELSE SymCode(Head(s)) + 3 * StrCode(Tail(s)) + 1
DigestByteTable == <<161, 26, 17, 170>>   \* 0xa1, 0x1a, 0x11, 0xaa
Hmac(deviceId) ==
    [i \in 1..DigestBytes |-> DigestByteTable[((StrCode(deviceId) \div i) % 4) + 1]]

Unauthorized == [code |-> "UNAUTHORIZED", deviceId |-> <<>>]

\* crypto.timingSafeEqual throws on buffers of different length; the throw
\* is caught and mapped to UNAUTHORIZED.
authenticateDevice(hasBearer, token) ==
    IF ~hasBearer THEN Unauthorized
    ELSE LET parts == Split(token, <<>>) IN
         IF Len(parts) # 2 THEN Unauthorized
         ELSE LET deviceId == parts[1]
                  hmac == parts[2]
                  expectedHmac == HexEncode(Hmac(deviceId))
                  a == BufferFromHex(hmac)
                  b == BufferFromHex(expectedHmac)
              IN IF Len(a) # Len(b) THEN Unauthorized
                 ELSE IF a # b THEN Unauthorized
                 ELSE [code |-> "OK", deviceId |-> deviceId]

\* POST /api/devices: deviceToken = `${device.id}:${hmac}`
DeviceToken(d) == <<d, ":">> \o HexEncode(Hmac(<<d>>))

Tokens == UNION { [1..n -> TokenAlphabet] : n \in 0..MaxTokenLen }

-----------------------------------------------------------------------------
(* Tenant enforcement and the role gate.                                   *)

Pass(t) == [code |-> "OK", tenantId |-> t]
Fail(c) == [code |-> c, tenantId |-> NULL]

\* A tenancy check that resolves the tenant id and asks for no membership.
enforceTenancyNoMembership(u, paramsTenantId, header, query) ==
    LET tenantId == IF paramsTenantId # NoTenant THEN paramsTenantId
                    ELSE IF header # NoTenant THEN header
                    ELSE query
    IN IF tenantId = NoTenant /\ ~isPlatformAdmin(loadUserContext(u))
       THEN Fail("VALIDATION_ERROR")
       ELSE Pass(IF tenantId # NoTenant THEN tenantId ELSE NULL)

\* enforceTenancy for a user request: the tenant id is the path parameter,
\* else the x-tenant-id header, else the tenantId query value.  On success
\* req.tenantId is the resolved id (NULL when a platform admin names none).
enforceTenancy(u, paramsTenantId, header, query) ==
    LET mem == loadUserContext(u)
        tenantId == IF paramsTenantId # NoTenant THEN paramsTenantId
                    ELSE IF header # NoTenant THEN header
                    ELSE query
    IN IF tenantId = NoTenant /\ ~isPlatformAdmin(mem) THEN Fail("VALIDATION_ERROR")
       ELSE IF tenantId # NoTenant
            THEN IF ~isPlatformAdmin(mem) /\ ~\E m \in mem : m.tenantId = tenantId
                 THEN Fail("FORBIDDEN")
                 ELSE Pass(tenantId)
            ELSE Pass(NULL)

\* A role gate that looks for the role in any membership of the user.
requireRolesAnyTenant(roles, u, reqTenantId, paramsTenantId, header) ==
    IF \E m \in loadUserContext(u) : m.role \in roles \cup {"PLATFORM_ADMIN"}
    THEN "OK" ELSE "FORBIDDEN"

\* requireRoles(...roles): reqTenantId is req.tenantId as left by the
\* middleware before it (NULL if enforceTenancy did not run or set none).
requireRoles(roles, u, reqTenantId, paramsTenantId, header) ==
    LET mem == loadUserContext(u)
        tenantId == IF reqTenantId # NULL THEN reqTenantId
                    ELSE IF paramsTenantId # NoTenant THEN paramsTenantId
                    ELSE header
    IN IF isPlatformAdmin(mem) THEN "OK"
       ELSE IF tenantId = NoTenant THEN "FORBIDDEN"
       ELSE IF ~\E m \in mem : m.tenantId = tenantId THEN "FORBIDDEN"
       ELSE IF (CHOOSE m \in mem : m.tenantId = tenantId).role \notin roles THEN "FORBIDDEN"
       ELSE "OK"

HeaderValues == Tenants \cup {NoTenant}
PathTenantIds == Tenants \cup {"tX"}      \* "tX": an id of no tenant
PathDeviceIds == DeviceIds \cup {"dX"}    \* "dX": an id of no device

TenantEntity(t) == [kind |-> "Tenant", id |-> t, tenantId |-> t]
KpiEntity(t) == [kind |-> "DashboardKpis", id |-> t, tenantId |-> t]
DeviceEntity(d) == [kind |-> "Device", id |-> d, tenantId |-> DeviceTenant[d]]

Response(op, u, target, header, code, data) ==
    [op |-> op, user |-> u, target |-> target, header |-> header,
     code |-> code, data |-> data]

\* The tables a read endpoint leaves alone.
ReadOnly == UNCHANGED <<authIn, authOut, entitlements, commands, creates, polls,
                        pollLog, clock, audit, auditUp, telemetry, devices, twins, sites,
                        ingests, ingestCount, rules, alerts, notifications, sweeps,
                        otaVars, regVars>>

\* GET /api/tenants/:id  (authenticateUser, loadUserContext; no tenancy check)
GetTenant ==
    \E u \in Users, id \in PathTenantIds, header \in HeaderValues :
        /\ resp' = IF id \in Tenants
                   THEN Response("GetTenant", u, id, header, "OK", {TenantEntity(id)})
                   ELSE Response("GetTenant", u, id, header, "NOT_FOUND", {})
        /\ ReadOnly

\* GET /api/tenants/:tenantId/dashboard/summary  (authenticateUser,
\* loadUserContext; the counts are filtered by the path tenant id only)
GetDashboardSummary ==
    \E u \in Users, tenantId \in PathTenantIds, header \in HeaderValues :
        /\ resp' = Response("GetDashboardSummary", u, tenantId, header, "OK",
                            IF tenantId \in Tenants THEN {KpiEntity(tenantId)} ELSE {})
        /\ ReadOnly

\* GET /api/devices  (enforceTenancy; where: {tenantId: req.tenantId}; an
\* undefined tenantId is no filter)
ListDevices ==
    \E u \in Users, header \in HeaderValues, query \in HeaderValues :
        LET t == enforceTenancy(u, NoTenant, header, query) IN
        /\ resp' = IF t.code # "OK"
                   THEN Response("ListDevices", u, query, header, t.code, {})
                   ELSE Response("ListDevices", u, query, header, "OK",
                            { DeviceEntity(d) : d \in
                                { x \in DeviceIds : t.tenantId = NULL \/ DeviceTenant[x] = t.tenantId } })
        /\ ReadOnly

\* GET /api/devices/:id  (enforceTenancy; findFirst {id, tenantId: req.tenantId})
GetDevice ==
    \E u \in Users, id \in PathDeviceIds, header \in HeaderValues :
        LET t == enforceTenancy(u, NoTenant, header, NoTenant)
            found == { d \in DeviceIds : d = id /\ (t.tenantId = NULL \/ DeviceTenant[d] = t.tenantId) }
        IN
        /\ resp' = IF t.code # "OK" THEN Response("GetDevice", u, id, header, t.code, {})
                   ELSE IF found = {} THEN Response("GetDevice", u, id, header, "NOT_FOUND", {})
                   ELSE Response("GetDevice", u, id, header, "OK", { DeviceEntity(d) : d \in found })
        /\ ReadOnly

\* The role sets the routes pass to requireRoles.
RoleSets ==
    { {"PLATFORM_ADMIN"},
      {"PLATFORM_ADMIN", "TENANT_ADMIN"},
      {"PLATFORM_ADMIN", "TENANT_ADMIN", "INSTALLER"},
      {"PLATFORM_ADMIN", "TENANT_ADMIN", "SUPPORT_AGENT"},
      Roles }

\* The enforceTenancy middleware on a request of user u: what it answers
\* (OK when it calls next()) and the req.tenantId it leaves.
EnforceTenancy ==
    \E u \in Users, paramsTenantId \in PathTenantIds \cup {NoTenant},
       header \in HeaderValues, query \in HeaderValues :
        LET t == enforceTenancy(u, paramsTenantId, header, query) IN
        /\ resp' = [op |-> "enforceTenancy", user |-> u, paramsTenantId |-> paramsTenantId,
                    header |-> header, query |-> query, code |-> t.code,
                    tenantId |-> t.tenantId]
        /\ ReadOnly

\* The requireRoles(roles) middleware on a request of user u.
RequireRoles ==
    \E roles \in RoleSets, u \in Users, reqTenantId \in Tenants \cup {NULL},
       paramsTenantId \in {NoTenant, "tB"}, header \in HeaderValues :
        /\ resp' = [op |-> "requireRoles", roles |-> roles, user |-> u,
                    reqTenantId |-> reqTenantId, paramsTenantId |-> paramsTenantId,
                    header |-> header,
                    code |-> requireRoles(roles, u, reqTenantId, paramsTenantId, header)]
        /\ ReadOnly

-----------------------------------------------------------------------------
(* Entitlements.                                                           *)

MaxEntRows == 2         \* Entitlement rows the table may hold

EntKeys == {"BASIC_REMOTE_BOOST", "SMART_HOME_INTEGRATION"}
EntScopes == {"TENANT", "DEVICE"}

\* Append one AuditLog row (writeAuditLog); rows are identified by content.
AuditRow(tenantId, actorUserId, actorType, action, entityType, entityId) ==
    [tenantId |-> tenantId, actorUserId |-> actorUserId, actorType |-> actorType,
     action |-> action, entityType |-> entityType, entityId |-> entityId]

\* checkEntitlement(tenantId, key, deviceId?): deviceId = NULL when absent.
\* An audit write without the try/catch: a failure of the store reaches the
\* caller.
writeAuditLogUncaught(log, entry) ==
    [log |-> IF auditUp THEN log \cup {entry} ELSE log, threw |-> ~auditUp]

\* writeAuditLog(entry) on the AuditLog table `log`: prisma.auditLog.create
\* inside try/catch, so the caller never sees the store fail.  threw tells
\* the caller's own try/catch whether the awaited call rejected.
writeAuditLog(log, entry) ==
    [log |-> IF auditUp THEN log \cup {entry} ELSE log, threw |-> FALSE]

\* The store starts or stops accepting AuditLog rows.
AuditStoreChanges ==
    /\ auditUp' = ~auditUp
    /\ UNCHANGED <<authIn, authOut, resp, entitlements, commands, creates, polls,
                   pollLog, clock, audit, telemetry, devices, twins, sites, ingests,
                   ingestCount, rules, alerts, notifications, sweeps, otaVars, regVars>>

checkEntitlement(tenantId, key, deviceId) ==
    LET deviceRows == { e \in entitlements :
                          /\ e.tenantId = tenantId /\ e.key = key
                          /\ e.deviceId = deviceId /\ e.scope = "DEVICE" }
        tenantRows == { e \in entitlements :
                          /\ e.tenantId = tenantId /\ e.key = key
                          /\ e.scope = "TENANT" /\ e.deviceId = NULL }
    IN IF deviceId # NULL /\ deviceRows # {}
       THEN (CHOOSE e \in deviceRows : TRUE).enabled
       ELSE IF tenantRows = {} /\ key = "BASIC_REMOTE_BOOST" THEN TRUE
       ELSE IF tenantRows = {} THEN FALSE
       ELSE (CHOOSE e \in tenantRows : TRUE).enabled

\* requireEntitlement(key): skipped when req.tenantId is not set.
requireEntitlement(key, reqTenantId, paramsId) ==
    IF reqTenantId = NULL THEN "OK"
    ELSE IF ~checkEntitlement(reqTenantId, key, paramsId) THEN "FEATURE_DISABLED"
    ELSE "OK"

EntUnchanged == UNCHANGED <<authIn, authOut, commands, creates, polls, pollLog,
                            clock, telemetry, devices, twins, sites, ingests,
                            ingestCount, rules, alerts, notifications, sweeps,
                            otaVars, regVars>>

\* PUT /api/entitlements by user u: upsert on the unique key (tenantId, key,
\* deviceId), then the audit row.  With no deviceId the selector's deviceId is
\* null, which the store client may refuse in a compound unique selector
\* (the call then throws) or match against the row that has no device.
PutEntitlement(u, header, scope, deviceId, key, enabled) ==
        LET t == enforceTenancy(u, NoTenant, header, NoTenant)
            r == requireRoles({"PLATFORM_ADMIN", "TENANT_ADMIN"}, u, t.tenantId, NoTenant, header)
            old == { e \in entitlements :
                       e.tenantId = t.tenantId /\ e.key = key /\ e.deviceId = deviceId }
            row == [tenantId |-> t.tenantId, scope |-> scope, deviceId |-> deviceId,
                    key |-> key, enabled |-> enabled]
            out(code) == [op |-> "PutEntitlement", code |-> code]
        IN
        /\ EntUnchanged
        /\ \/ /\ t.code # "OK"
              /\ resp' = out(t.code)
              /\ UNCHANGED <<entitlements, audit, auditUp>>
           \/ /\ t.code = "OK" /\ r # "OK"
              /\ resp' = out(r)
              /\ UNCHANGED <<entitlements, audit, auditUp>>
           \/ \* a platform admin without a tenant id (the upsert has no tenantId),
              \* or a null deviceId the client refuses
              /\ t.code = "OK" /\ r = "OK"
              /\ t.tenantId = NULL \/ deviceId = NULL
              /\ resp' = out("INTERNAL_ERROR")
              /\ UNCHANGED <<entitlements, audit, auditUp>>
           \/ /\ t.code = "OK" /\ r = "OK" /\ t.tenantId # NULL
              /\ old # {} \/ Cardinality(entitlements) < MaxEntRows
              /\ entitlements' = (entitlements \ old) \cup {row}
              /\ LET w == writeAuditLog(audit, AuditRow(t.tenantId, u, "USER",
                                 "ENTITLEMENT_UPDATED", "Entitlement",
                                 <<t.tenantId, key, deviceId>>))
                 IN /\ audit' = w.log
                    /\ resp' = IF w.threw THEN out("INTERNAL_ERROR") ELSE out("OK")
              /\ UNCHANGED auditUp

-----------------------------------------------------------------------------
(* Command queue.                                                          *)

MaxCommands == 2        \* Command rows ever created
MaxInflight == 2        \* concurrent requests of one kind
MaxClock == 1           \* last tick of the wall clock

Idle == [stage |-> "idle"]
Slots == 1..MaxInflight

CmdIds == 1..MaxCommands

\* Commands being inserted count against the bound on rows.
Pending(table) == Cardinality({ i \in Slots : table[i].stage # "idle" })

CmdOthers == UNCHANGED <<authIn, authOut, entitlements, telemetry, devices, twins,
                         sites, ingests, ingestCount, rules, alerts, notifications,
                         sweeps, otaVars, regVars>>

\* The wall clock advances.
Tick ==
    /\ clock < MaxClock
    /\ clock' = clock + 1
    /\ UNCHANGED <<authIn, authOut, resp, entitlements, commands, creates, polls,
                   pollLog, audit, auditUp, telemetry, devices, twins, sites, ingests,
                   ingestCount, rules, alerts, notifications, sweeps, otaVars, regVars>>

\* A device lookup by id alone.
DeviceOfAnyTenant(id, tenantId) == id \in DeviceIds

\* prisma.device.findFirst({where: {id, tenantId: req.tenantId}}) finds a row
\* (an undefined tenantId is no filter).
DeviceOfTenant(id, tenantId) ==
    id \in DeviceIds /\ (tenantId = NULL \/ DeviceTenant[id] = tenantId)

\* POST /api/devices/:id/commands by user u with the x-tenant-id header
\* `header`, up to the insert: enforceTenancy,
\* requireRoles, requireEntitlement('BASIC_REMOTE_BOOST'), the device lookup
\* {id, tenantId: req.tenantId} (an undefined tenantId is no filter), and the
\* row built with requestedAt = new Date().  gate records what the
\* entitlement of the device's own tenant resolved to at this moment.
CreateCommandBegin(i, u, id, header) ==
        LET t == enforceTenancy(u, NoTenant, header, NoTenant)
            r == requireRoles(Roles, u, t.tenantId, NoTenant, header)
            e == requireEntitlement("BASIC_REMOTE_BOOST", t.tenantId, id)
            found == DeviceOfTenant(id, t.tenantId)
            out(code) == [op |-> "CreateCommand", deviceId |-> id, code |-> code]
        IN
        /\ creates[i] = Idle
        /\ CmdOthers
        /\ UNCHANGED <<commands, polls, pollLog, clock, audit, auditUp>>
        /\ \/ /\ t.code # "OK"
              /\ resp' = out(t.code)
              /\ UNCHANGED creates
           \/ /\ t.code = "OK" /\ r # "OK"
              /\ resp' = out(r)
              /\ UNCHANGED creates
           \/ /\ t.code = "OK" /\ r = "OK" /\ e # "OK"
              /\ resp' = out(e)
              /\ UNCHANGED creates
           \/ /\ t.code = "OK" /\ r = "OK" /\ e = "OK" /\ ~found
              /\ resp' = out("NOT_FOUND")
              /\ UNCHANGED creates
           \/ /\ t.code = "OK" /\ r = "OK" /\ e = "OK" /\ found
              /\ Len(commands) + Pending(creates) < MaxCommands
              /\ creates' = [creates EXCEPT ![i] =
                    [stage |-> "insert", deviceId |-> id, requestedByUserId |-> u,
                     tenantId |-> t.tenantId, requestedAt |-> clock,
                     gate |-> checkEntitlement(DeviceTenant[id], "BASIC_REMOTE_BOOST", id)]]
              /\ UNCHANGED resp

\* prisma.command.create, writeAuditLog(COMMAND_CREATED), 201.
CreateCommandInsert(i) ==
    LET c == creates[i] IN
    /\ c.stage = "insert"
    /\ commands' = Append(commands,
            [deviceId |-> c.deviceId, status |-> "QUEUED",
             requestedByUserId |-> c.requestedByUserId, requestedAt |-> c.requestedAt,
             deliveredAt |-> NullNum, ackAt |-> NullNum, gate |-> c.gate])
    /\ LET w == writeAuditLog(audit, AuditRow(c.tenantId, c.requestedByUserId, "USER",
                                              "COMMAND_CREATED", "Command",
                                              Len(commands) + 1))
       IN /\ audit' = w.log
          /\ resp' = [op |-> "CreateCommand", deviceId |-> c.deviceId,
                      code |-> IF w.threw THEN "INTERNAL_ERROR" ELSE "CREATED"]
    /\ UNCHANGED auditUp
    /\ creates' = [creates EXCEPT ![i] = Idle]
    /\ CmdOthers
    /\ UNCHANGED <<polls, pollLog, clock>>

\* findMany({where: {deviceId, status: 'QUEUED'}, orderBy: {requestedAt: 'asc'}}):
\* every ordering of the matching rows that the sort allows.
QueuedOrderings(deviceId) ==
    LET ids == { c \in 1..Len(commands) :
                   commands[c].deviceId = deviceId /\ commands[c].status = "QUEUED" }
    IN { q \in [1..Cardinality(ids) -> ids] :
           /\ \A a, b \in 1..Cardinality(ids) : a # b => q[a] # q[b]
           /\ \A a, b \in 1..Cardinality(ids) :
                a < b => commands[q[a]].requestedAt <= commands[q[b]].requestedAt }

\* A path check that lets every token through.
NoPathCheck(authDevice, id) == FALSE

\* if (req.deviceId !== req.params.id): the path names another device than
\* the token does (the first statement of each device-side handler).
PathMismatch(authDevice, id) == authDevice # id

\* GET /api/devices/:id/commands/pending with the token of authDevice, up to
\* the read of the queued rows.
PollPendingRead(p, authDevice, id) ==
        /\ polls[p] = Idle
        /\ CmdOthers
        /\ UNCHANGED <<commands, creates, clock, audit, auditUp>>
        /\ \/ /\ PathMismatch(authDevice, id)
              /\ resp' = [op |-> "PollPending", deviceId |-> id, code |-> "FORBIDDEN"]
              /\ UNCHANGED <<polls, pollLog>>
           \/ /\ ~PathMismatch(authDevice, id)
              /\ QueuedOrderings(id) = {<<>>}
              /\ resp' = [op |-> "PollPending", deviceId |-> id, code |-> "OK"]
              /\ UNCHANGED <<polls, pollLog>>
           \/ /\ ~PathMismatch(authDevice, id)
              /\ \E q \in QueuedOrderings(id) :
                    /\ q # <<>>
                    /\ polls' = [polls EXCEPT ![p] =
                                    [stage |-> "mark", deviceId |-> id, rows |-> q]]
              /\ UNCHANGED <<resp, pollLog>>

\* A write of deliveredAt alone, leaving the status as read.
StampDelivered(row, now) == [row EXCEPT !.deliveredAt = now]

\* data: {status: 'DELIVERED', deliveredAt: new Date()}
MarkDelivered(row, now) == [row EXCEPT !.status = "DELIVERED", !.deliveredAt = now]

\* updateMany({where: {id: {in: ids}}, data: ...}), then res.json(commands).
PollPendingMark(p) ==
    LET q == polls[p]
        ids == { q.rows[k] : k \in 1..Len(q.rows) }
    IN
    /\ q.stage = "mark"
    /\ commands' = [c \in 1..Len(commands) |->
                      IF c \in ids
                      THEN MarkDelivered(commands[c], clock)
                      ELSE commands[c]]
    /\ pollLog' = Append(pollLog, [deviceId |-> q.deviceId, rows |-> q.rows])
    /\ resp' = [op |-> "PollPending", deviceId |-> q.deviceId, code |-> "OK"]
    /\ polls' = [polls EXCEPT ![p] = Idle]
    /\ CmdOthers
    /\ UNCHANGED <<creates, clock, audit, auditUp>>

\* POST /api/devices/:id/commands/:commandId/ack with the token of authDevice
AckCommand(authDevice, id, commandId, status) ==
        LET found == commandId \in 1..Len(commands) /\ commands[commandId].deviceId = id
            out(code) == [op |-> "AckCommand", deviceId |-> id, code |-> code]
        IN
        /\ CmdOthers
        /\ UNCHANGED <<creates, polls, pollLog, clock>>
        /\ \/ /\ PathMismatch(authDevice, id)
              /\ resp' = out("FORBIDDEN")
              /\ UNCHANGED <<commands, audit, auditUp>>
           \/ /\ ~PathMismatch(authDevice, id) /\ ~found
              /\ resp' = out("NOT_FOUND")
              /\ UNCHANGED <<commands, audit, auditUp>>
           \/ /\ ~PathMismatch(authDevice, id) /\ found
              /\ commands' = [commands EXCEPT ![commandId] =
                                [@ EXCEPT !.status = status, !.ackAt = clock]]
              /\ LET w == writeAuditLog(audit, AuditRow(DeviceTenant[id], NULL, "DEVICE",
                                 IF status = "ACKED" THEN "COMMAND_ACKED"
                                 ELSE "COMMAND_FAILED",
                                 "Command", commandId))
                 IN /\ audit' = w.log
                    /\ resp' = IF w.threw THEN out("INTERNAL_ERROR") ELSE out("OK")
              /\ UNCHANGED auditUp

-----------------------------------------------------------------------------
(* Telemetry ingest and site location.                                     *)

MaxIngests == 2         \* ingest calls accepted in one run
MaxTs == 2              \* largest payload timestamp

\* Payload metric mappings and geo fixes that devices send.
MetricInputs == { [tankTempC |-> 90], [rssiDbm |-> -110, batteryPct |-> 10] }
NoGeo == [absent |-> TRUE]
GeoInputs == { NoGeo, [lat |-> 38, lon |-> 24, source |-> "EDGE_GNSS"] }
HasGeo(geo) == "lat" \in DOMAIN geo
EmptyMap == [k \in {} |-> 0]
UserLocations == { [lat |-> 37, lon |-> 23] }

Has(m, k) == k \in DOMAIN m
\* metrics.k ?? prior
Coalesce(m, k, prior) == IF Has(m, k) THEN m[k] ELSE prior

\* derivedState written at registration: { isOnline: false, healthScore: 0 }
InitialDerivedState ==
    [last |-> EmptyMap, isOnline |-> FALSE, healthScore |-> 0, lastRssi |-> NullNum,
     lastTankTempC |-> NullNum, lastAmbientTempC |-> NullNum, heaterOn |-> NullNum,
     lastPowerW |-> NullNum, lastGeoLat |-> NullNum, lastGeoLon |-> NullNum,
     lastGeoSource |-> NULL]

Max(a, b) == IF a > b THEN a ELSE b

\* computeDerivedState(metrics, geo, existingState); `last` holds the
\* last_<metric> mirrors, keyed by metric name.
computeDerivedState(metrics, geo, existingState) ==
    LET health == 100
                  - (IF Has(metrics, "rssiDbm") /\ metrics["rssiDbm"] < -100 THEN 20 ELSE 0)
                  - (IF Has(metrics, "batteryPct") /\ metrics["batteryPct"] < 20 THEN 30 ELSE 0)
                  - (IF Has(metrics, "tankTempC") /\ metrics["tankTempC"] > 85 THEN 20 ELSE 0)
    IN [last |-> [k \in DOMAIN existingState.last \cup DOMAIN metrics |->
                     IF Has(metrics, k) THEN metrics[k] ELSE existingState.last[k]],
        isOnline |-> TRUE,
        lastRssi |-> Coalesce(metrics, "rssiDbm", existingState.lastRssi),
        lastTankTempC |-> Coalesce(metrics, "tankTempC", existingState.lastTankTempC),
        lastAmbientTempC |-> Coalesce(metrics, "ambientTempC", existingState.lastAmbientTempC),
        heaterOn |-> Coalesce(metrics, "heaterOn", existingState.heaterOn),
        lastPowerW |-> Coalesce(metrics, "powerW", existingState.lastPowerW),
        healthScore |-> Max(0, health),
        lastGeoLat |-> IF HasGeo(geo) THEN geo.lat ELSE existingState.lastGeoLat,
        lastGeoLon |-> IF HasGeo(geo) THEN geo.lon ELSE existingState.lastGeoLon,
        lastGeoSource |-> IF HasGeo(geo) THEN geo.source ELSE existingState.lastGeoSource]

IngOthers == UNCHANGED <<authIn, authOut, entitlements, commands, creates, polls,
                         pollLog, clock, rules, alerts, notifications, sweeps,
                         otaVars, regVars>>

\* A payload check that lets every token through.
NoPayloadCheck(authDevice, deviceId) == FALSE

\* if (req.deviceId !== deviceId): the payload names another device than the
\* token does.
PayloadMismatch(authDevice, deviceId) == authDevice # deviceId

\* POST /api/ingest/telemetry with the token of authDevice and the payload
\* (deviceId, ts, metrics, geo), up to the device read: the payload deviceId
\* must equal the authenticated one; findUnique({id, include: {site}}) keeps
\* the Site row as it is now for the rest of the call.
IngestBegin(i, authDevice, deviceId, ts, metrics, geo) ==
        LET out(code) == [op |-> "IngestTelemetry", code |-> code] IN
        /\ ingests[i] = Idle
        /\ IngOthers
        /\ UNCHANGED <<telemetry, devices, twins, sites, audit, auditUp>>
        /\ \/ /\ PayloadMismatch(authDevice, deviceId)
              /\ resp' = out("VALIDATION_ERROR")
              /\ UNCHANGED <<ingests, ingestCount>>
           \/ /\ ~PayloadMismatch(authDevice, deviceId) /\ deviceId \notin DeviceIds
              /\ resp' = out("NOT_FOUND")
              /\ UNCHANGED <<ingests, ingestCount>>
           \/ /\ ~PayloadMismatch(authDevice, deviceId) /\ deviceId \in DeviceIds
              /\ ingestCount < MaxIngests
              /\ ingestCount' = ingestCount + 1
              /\ ingests' = [ingests EXCEPT ![i] =
                    [stage |-> "telemetry", deviceId |-> deviceId, ts |-> ts,
                     metrics |-> metrics, geo |-> geo,
                     site |-> sites[DeviceSite[deviceId]], existingState |-> InitialDerivedState,
                     advances |-> FALSE]]
              /\ UNCHANGED resp

\* prisma.telemetry.create
IngestStore(i) ==
    LET r == ingests[i] IN
    /\ r.stage = "telemetry"
    /\ telemetry' = Append(telemetry, [deviceId |-> r.deviceId, ts |-> r.ts,
                                       metrics |-> r.metrics, geo |-> r.geo])
    /\ ingests' = [ingests EXCEPT ![i].stage = "device"]
    /\ IngOthers
    /\ UNCHANGED <<resp, audit, auditUp, devices, twins, sites, ingestCount>>

\* prisma.device.update: lastSeenAt = ts, and the device-reported location
\* when geo is present.  advances records whether ts is later than the
\* lastSeenAt this write replaces (or there was none).
IngestDeviceUpdate(i) ==
    LET r == ingests[i] IN
    /\ r.stage = "device"
    /\ devices' = [devices EXCEPT ![r.deviceId] =
                     IF HasGeo(r.geo)
                     THEN [lastSeenAt |-> r.ts, deviceLat |-> r.geo.lat,
                           deviceLon |-> r.geo.lon, deviceLocationTs |-> r.ts]
                     ELSE [@ EXCEPT !.lastSeenAt = r.ts]]
    /\ ingests' = [ingests EXCEPT ![i].stage = "twinRead",
                                  ![i].advances = \/ devices[r.deviceId].lastSeenAt = NullNum
                                                  \/ r.ts > devices[r.deviceId].lastSeenAt]
    /\ IngOthers
    /\ UNCHANGED <<resp, audit, auditUp, telemetry, twins, sites, ingestCount>>

\* prisma.deviceTwin.findUnique: the derived state to merge into.
IngestTwinRead(i) ==
    LET r == ingests[i] IN
    /\ r.stage = "twinRead"
    /\ ingests' = [ingests EXCEPT ![i].stage = "twinWrite",
                                  ![i].existingState = twins[r.deviceId].derivedState]
    /\ IngOthers
    /\ UNCHANGED <<resp, audit, auditUp, telemetry, devices, twins, sites, ingestCount>>

\* prisma.deviceTwin.upsert
IngestTwinUpsert(i) ==
    LET r == ingests[i] IN
    /\ r.stage = "twinWrite"
    /\ twins' = [twins EXCEPT ![r.deviceId] =
                    [lastTs |-> r.ts,
                     derivedState |-> computeDerivedState(r.metrics, r.geo, r.existingState)]]
    /\ ingests' = [ingests EXCEPT ![i].stage = "site"]
    /\ IngOthers
    /\ UNCHANGED <<resp, audit, auditUp, telemetry, devices, sites, ingestCount>>

\* shouldUpdateSite, computed on the Site row read at the start of the call.
shouldUpdateSite(site) ==
    ~site.locationLock /\ ((site.lat = NullNum /\ site.lon = NullNum) \/ site.lat = NullNum)

\* Site geo reconciliation, the audits and the 201.  The large-jump audit
\* needs a distance above 1 km; every modelled device fix is that far from
\* every user-set site location.
IngestSiteReconcile(i) ==
    LET r == ingests[i]
        s == DeviceSite[r.deviceId]
        moves == HasGeo(r.geo) /\ shouldUpdateSite(r.site)
        jump == HasGeo(r.geo) /\ r.site.lat # NullNum /\ r.site.lon # NullNum
    IN
    /\ r.stage = "site"
    /\ sites' = IF moves
                THEN [sites EXCEPT ![s].lat = r.geo.lat, ![s].lon = r.geo.lon,
                                   ![s].locationSource = r.geo.source]
                ELSE sites
    /\ LET w == IF moves
                THEN writeAuditLog(audit, AuditRow(DeviceTenant[r.deviceId], NULL, "DEVICE",
                                          "SITE_LOCATION_SET_FROM_DEVICE", "Site", s))
                ELSE IF jump
                THEN writeAuditLog(audit, AuditRow(DeviceTenant[r.deviceId], NULL, "DEVICE",
                                          "DEVICE_GEO_LARGE_JUMP", "Device", r.deviceId))
                ELSE [log |-> audit, threw |-> FALSE]
       IN /\ audit' = w.log
          /\ resp' = [op |-> "IngestTelemetry",
                      code |-> IF w.threw THEN "INTERNAL_ERROR" ELSE "CREATED"]
    /\ UNCHANGED auditUp
    /\ ingests' = [ingests EXCEPT ![i] = Idle]
    /\ IngOthers
    /\ UNCHANGED <<telemetry, devices, twins, ingestCount>>

\* A lookup of any owned device of the site, whoever owns it.
hasAccessAnyOwner(u, siteId) ==
    \E d \in DeviceIds : DeviceSite[d] = siteId /\ DeviceOwner[d] # NULL

\* prisma.device.findFirst({where: {siteId: site.id, ownerUserId: userId}})
\* finds a row.
hasAccess(u, siteId) ==
    \E d \in DeviceIds : DeviceSite[d] = siteId /\ DeviceOwner[d] = u

\* PATCH /api/sites/:siteId/location by user u with body {lat, lon, lock};
\* lock is "unset" when the body has none.
PatchSiteLocation(u, header, siteId, loc, lock) ==
        LET t == enforceTenancy(u, NoTenant, header, NoTenant)
            found == t.tenantId = NULL \/ SiteTenant[siteId] = t.tenantId
            mem == loadUserContext(u)
            isEndUser == \E m \in mem : m.tenantId = t.tenantId /\ m.role = "END_USER"
            out(code) == [op |-> "PatchSiteLocation", code |-> code]
        IN
        /\ IngOthers
        /\ UNCHANGED <<telemetry, devices, twins, ingests, ingestCount>>
        /\ \/ /\ t.code # "OK"
              /\ resp' = out(t.code)
              /\ UNCHANGED <<sites, audit, auditUp>>
           \/ /\ t.code = "OK" /\ ~found
              /\ resp' = out("NOT_FOUND")
              /\ UNCHANGED <<sites, audit, auditUp>>
           \/ /\ t.code = "OK" /\ found
              /\ ~isPlatformAdmin(mem) /\ isEndUser /\ ~hasAccess(u, siteId)
              /\ resp' = out("FORBIDDEN")
              /\ UNCHANGED <<sites, audit, auditUp>>
           \/ /\ t.code = "OK" /\ found
              /\ ~(~isPlatformAdmin(mem) /\ isEndUser /\ ~hasAccess(u, siteId))
              /\ sites' = [sites EXCEPT ![siteId] =
                             [lat |-> loc.lat, lon |-> loc.lon, locationSource |-> "MANUAL",
                              locationLock |-> IF lock # "unset" THEN lock = "true"
                                               ELSE sites[siteId].locationLock]]
              /\ LET w == writeAuditLog(audit, AuditRow(t.tenantId, u, "USER",
                                 "SITE_LOCATION_UPDATED", "Site", siteId))
                 IN /\ audit' = w.log
                    /\ resp' = IF w.threw THEN out("INTERNAL_ERROR") ELSE out("OK")
              /\ UNCHANGED auditUp

-----------------------------------------------------------------------------
(* Alert evaluator.                                                        *)

MaxAlerts == 4          \* AlertEvent rows ever created

noTelemetryThresholdMinutes == 30
overTempThresholdC == 85
sensorOutOfRangeRepeatCount == 3

\* Device.status: every modelled device is in service.
DeviceStatus == [d \in DeviceIds |-> "ACTIVE"]

\* AlertRule tables a run may start from (rules are created by tenant admins).
RuleTables ==
    { << [id |-> "r1", tenantId |-> "tA", type |-> "NO_TELEMETRY", severity |-> "CRITICAL",
          enabled |-> TRUE, params |-> [thresholdMinutes |-> 1]],
         [id |-> "r2", tenantId |-> "tA", type |-> "OVER_TEMP", severity |-> "INFO",
          enabled |-> TRUE, params |-> EmptyMap],
         [id |-> "r3", tenantId |-> "tB", type |-> "SENSOR_OUT_OF_RANGE", severity |-> "WARNING",
          enabled |-> TRUE, params |-> [metric |-> "rssiDbm", min |-> -100, repeatCount |-> 1]] >>,
      << [id |-> "r1", tenantId |-> "tA", type |-> "OVER_TEMP", severity |-> "WARNING",
          enabled |-> TRUE, params |-> [thresholdC |-> 50]],
         [id |-> "r2", tenantId |-> "tB", type |-> "POSSIBLE_LEAK", severity |-> "CRITICAL",
          enabled |-> TRUE, params |-> EmptyMap],
         [id |-> "r3", tenantId |-> "tB", type |-> "NO_TELEMETRY", severity |-> "INFO",
          enabled |-> FALSE, params |-> EmptyMap] >> }

NotificationChannels ==
    { [id |-> "ch1", tenantId |-> "tA", type |-> "WEBHOOK", enabled |-> TRUE],
      [id |-> "ch2", tenantId |-> "tA", type |-> "EMAIL", enabled |-> TRUE],
      [id |-> "ch3", tenantId |-> "tA", type |-> "SMS", enabled |-> FALSE],
      [id |-> "ch4", tenantId |-> "tB", type |-> "EMAIL", enabled |-> TRUE] }

\* params.k || dflt  (absent and 0 are both falsy)
OrDefault(params, k, dflt) == IF Has(params, k) /\ params[k] # 0 THEN params[k] ELSE dflt
\* params.k ?? dflt
NullishDefault(params, k, dflt) == IF Has(params, k) THEN params[k] ELSE dflt

\* A findMany without `take`: every reading of the device is read.
MostRecentUnbounded(matching, n) == {matching}

\* findMany({where, orderBy: {ts: 'desc'}, take: n}) over the row ids in
\* `matching`: every choice of the n most recent rows (ties are the store's).
MostRecent(matching, n) ==
    LET size == IF Cardinality(matching) < n THEN Cardinality(matching) ELSE n
    IN { R \in SUBSET matching :
           /\ Cardinality(R) = size
           /\ \A x \in R, y \in matching \ R : telemetry[x].ts >= telemetry[y].ts }

RowsOf(deviceId) == { x \in 1..Len(telemetry) : telemetry[x].deviceId = deviceId }

\* The predicate of a rule for a device: the set of outcomes the reads allow.
ShouldAlert(rule, deviceId) ==
    CASE rule.type = "NO_TELEMETRY" ->
           LET thresholdMin == OrDefault(rule.params, "thresholdMinutes", noTelemetryThresholdMinutes)
               threshold == clock - thresholdMin
           IN { devices[deviceId].lastSeenAt = NullNum
                \/ devices[deviceId].lastSeenAt < threshold }
      [] rule.type = "OVER_TEMP" ->
           LET state == twins[deviceId].derivedState
               threshold == OrDefault(rule.params, "thresholdC", overTempThresholdC)
           IN { /\ state.lastTankTempC # NullNum /\ state.lastTankTempC # 0
                /\ state.lastTankTempC > threshold }
      [] rule.type = "POSSIBLE_LEAK" ->
           LET lookbackMin == OrDefault(rule.params, "lookbackMinutes", 60)
               since == clock - lookbackMin
               window == { x \in RowsOf(deviceId) : telemetry[x].ts >= since }
           IN { /\ Cardinality(R) >= 5
                /\ \A x \in R : /\ Has(telemetry[x].metrics, "flowLpm")
                                /\ telemetry[x].metrics["flowLpm"] * 10 > 1
                : R \in MostRecent(window, 10) }
      [] rule.type = "SENSOR_OUT_OF_RANGE" ->
           LET metricName == IF Has(rule.params, "metric") THEN rule.params["metric"]
                             ELSE "tankTempC"
               min == NullishDefault(rule.params, "min", -10)
               max == NullishDefault(rule.params, "max", 120)
               repeatCount == OrDefault(rule.params, "repeatCount", sensorOutOfRangeRepeatCount)
               outOfRange(R) == { x \in R :
                                    /\ Has(telemetry[x].metrics, metricName)
                                    /\ \/ telemetry[x].metrics[metricName] < min
                                       \/ telemetry[x].metrics[metricName] > max }
           IN { Cardinality(outOfRange(R)) >= repeatCount
                : R \in MostRecent(RowsOf(deviceId), repeatCount) }

\* The (rule, device) pairs of one sweep, in loop order: enabled rules, and
\* for each the devices of its tenant with status ACTIVE or INSTALLED.
RECURSIVE DevicePairs(_, _)
DevicePairs(r, ds) ==
    IF ds = {} THEN <<>>
    ELSE LET d == CHOOSE x \in ds : \A y \in ds : x = y \/ x # y
         IN <<[rule |-> r, deviceId |-> d]>> \o DevicePairs(r, ds \ {d})
RECURSIVE WorkList(_)
WorkList(k) ==
    IF k > Len(rules) THEN <<>>
    ELSE (IF rules[k].enabled
          THEN DevicePairs(k, { d \in DeviceIds :
                                  /\ DeviceTenant[d] = rules[k].tenantId
                                  /\ DeviceStatus[d] \in {"ACTIVE", "INSTALLED"} })
          ELSE <<>>) \o WorkList(k + 1)

DedupeKey(deviceId, ruleId) == <<deviceId, ruleId>>

\* A table without the unique index refuses no insert.
NoUniqueIndex(key) == FALSE

\* The unique index AlertEvent_dedupeKey_key: an insert is refused when any
\* row, of any status, already holds the key.
DedupeKeyTaken(key) == \E a \in 1..Len(alerts) : alerts[a].dedupeKey = key

AlertOthers == UNCHANGED <<authIn, authOut, entitlements, commands, creates, polls,
                           pollLog, clock, telemetry, devices, twins, sites, ingests,
                           ingestCount, rules, otaVars, regVars>>

\* evaluateAlerts starts: the enabled rules are read.
SweepStart(s) ==
    /\ sweeps[s] = Idle
    /\ sweeps' = [sweeps EXCEPT ![s] = [stage |-> "check", work |-> WorkList(1)]]
    /\ AlertOthers
    /\ UNCHANGED <<resp, audit, auditUp, alerts, notifications>>

\* One (rule, device) pair: the existingOpen lookup, then the predicate.
SweepCheck(s) ==
    LET w == sweeps[s]
        item == Head(w.work)
        rule == rules[item.rule]
        key == DedupeKey(item.deviceId, rule.id)
        existingOpen == \E a \in 1..Len(alerts) :
                            /\ alerts[a].dedupeKey = key
                            /\ alerts[a].status \in {"OPEN", "ACKNOWLEDGED"}
    IN
    /\ w.stage = "check"
    /\ w.work # <<>>
    /\ AlertOthers
    /\ UNCHANGED <<resp, audit, auditUp, alerts, notifications>>
    /\ \/ /\ existingOpen
          /\ sweeps' = [sweeps EXCEPT ![s].work = Tail(w.work)]
       \/ /\ ~existingOpen
          /\ \E shouldAlert \in ShouldAlert(rule, item.deviceId) :
                sweeps' = [sweeps EXCEPT ![s] =
                              IF shouldAlert THEN [w EXCEPT !.stage = "create"]
                              ELSE [w EXCEPT !.work = Tail(w.work)]]

\* A row that carries no dedupe key.
UnkeyedAlertEvent(rule, deviceId, key) ==
    [tenantId |-> rule.tenantId, deviceId |-> deviceId, ruleId |-> rule.id,
     severity |-> rule.severity, status |-> "OPEN", dedupeKey |-> <<>>,
     acknowledgedAt |-> NullNum, closedAt |-> NullNum]

\* data: {tenantId, deviceId, ruleId, severity, status: 'OPEN', details, dedupeKey}
NewAlertEvent(rule, deviceId, key) ==
    [tenantId |-> rule.tenantId, deviceId |-> deviceId, ruleId |-> rule.id,
     severity |-> rule.severity, status |-> "OPEN", dedupeKey |-> key,
     acknowledgedAt |-> NullNum, closedAt |-> NullNum]

\* An error that leaves evaluateAlerts ends the run.
UncaughtError(w) == Idle

\* catch (err) { console.error(...) } inside the device loop: the error is
\* logged and the loop goes on with the next (rule, device) pair.
CaughtError(w) == [stage |-> "check", work |-> Tail(w.work)]

\* prisma.alertEvent.create; a unique-index violation is caught by the
\* per-device try/catch and the loop goes on.
SweepCreate(s) ==
    LET w == sweeps[s]
        item == Head(w.work)
        rule == rules[item.rule]
        key == DedupeKey(item.deviceId, rule.id)
    IN
    /\ w.stage = "create"
    /\ AlertOthers
    /\ UNCHANGED <<resp, audit, auditUp, notifications>>
    /\ \/ /\ DedupeKeyTaken(key)
          /\ sweeps' = [sweeps EXCEPT ![s] = CaughtError(w)]
          /\ UNCHANGED alerts
       \/ /\ ~DedupeKeyTaken(key)
          /\ Len(alerts) < MaxAlerts
          /\ alerts' = Append(alerts, NewAlertEvent(rule, item.deviceId, key))
          /\ sweeps' = [sweeps EXCEPT ![s] = [stage |-> "notify", work |-> w.work,
                                              alertEvent |-> Len(alerts) + 1]]

\* A dispatch that enqueues for every enabled channel of the tenant.
NotificationsForEveryChannel(tenantId, alertEventId, severity) ==
    { [tenantId |-> tenantId, channelId |-> c.id, alertEventId |-> alertEventId,
       status |-> "QUEUED"] :
      c \in { x \in NotificationChannels : x.tenantId = tenantId /\ x.enabled } }

\* dispatchAlertNotifications(tenantId, alertEventId, severity): the rows it
\* enqueues.
NotificationsFor(tenantId, alertEventId, severity) ==
    LET channels == { c \in NotificationChannels : c.tenantId = tenantId /\ c.enabled }
    IN { [tenantId |-> tenantId, channelId |-> c.id, alertEventId |-> alertEventId,
          status |-> "QUEUED"] :
         c \in { x \in channels : x.type = "WEBHOOK" \/ severity # "INFO" } }

\* dispatchAlertNotifications(rule.tenantId, alertEvent.id, rule.severity) for
\* the row this sweep has inserted.
SweepNotify(s) ==
    LET w == sweeps[s]
        rule == rules[Head(w.work).rule]
        alertEvent == w.alertEvent
    IN
    /\ w.stage = "notify"
    /\ notifications' = notifications \cup
                           NotificationsFor(rule.tenantId, alertEvent, rule.severity)
    /\ sweeps' = [sweeps EXCEPT ![s] = [stage |-> "check", work |-> Tail(w.work)]]
    /\ AlertOthers
    /\ UNCHANGED <<resp, audit, auditUp, alerts>>

\* dispatchAlertNotifications when one of its notificationEvent.create calls
\* throws: the rows created before it stay (there is no transaction), the
\* per-device catch logs the error and the loop goes on; the alert stays.
SweepNotifyFails(s) ==
    LET w == sweeps[s]
        rule == rules[Head(w.work).rule]
        alertEvent == w.alertEvent
        toEnqueue == NotificationsFor(rule.tenantId, alertEvent, rule.severity)
    IN
    /\ w.stage = "notify"
    /\ toEnqueue # {}
    /\ \E written \in (SUBSET toEnqueue) \ {toEnqueue} :
          notifications' = notifications \cup written
    /\ sweeps' = [sweeps EXCEPT ![s] = CaughtError(w)]
    /\ AlertOthers
    /\ UNCHANGED <<resp, audit, auditUp, alerts>>

\* evaluateAlerts returns.
SweepEnd(s) ==
    /\ sweeps[s].stage = "check"
    /\ sweeps[s].work = <<>>
    /\ sweeps' = [sweeps EXCEPT ![s] = Idle]
    /\ AlertOthers
    /\ UNCHANGED <<resp, audit, auditUp, alerts, notifications>>

\* POST /api/alerts/:id/ack and /close by user u: one handler shape, two
\* target states.
AlertTransition(op, status, action, u, header, id) ==
        LET t == enforceTenancy(u, NoTenant, header, NoTenant)
            found == /\ id \in 1..Len(alerts)
                     /\ alerts[id].tenantId = t.tenantId
            out(code) == [op |-> op, code |-> code]
        IN
        /\ AlertOthers
        /\ UNCHANGED <<notifications, sweeps>>
        /\ \/ /\ t.code # "OK"
              /\ resp' = out(t.code)
              /\ UNCHANGED <<alerts, audit, auditUp>>
           \/ /\ t.code = "OK" /\ ~found
              /\ resp' = out("NOT_FOUND")
              /\ UNCHANGED <<alerts, audit, auditUp>>
           \/ /\ t.code = "OK" /\ found
              /\ alerts' = [alerts EXCEPT ![id] =
                              IF status = "ACKNOWLEDGED"
                              THEN [@ EXCEPT !.status = status, !.acknowledgedAt = clock]
                              ELSE [@ EXCEPT !.status = status, !.closedAt = clock]]
              /\ LET w == writeAuditLog(audit, AuditRow(t.tenantId, u, "USER", action,
                                                        "AlertEvent", id))
                 IN /\ audit' = w.log
                    /\ resp' = IF w.threw THEN out("INTERNAL_ERROR") ELSE out("OK")
              /\ UNCHANGED auditUp

AckAlert(u, header, id) ==
    AlertTransition("AckAlert", "ACKNOWLEDGED", "ALERT_ACKNOWLEDGED", u, header, id)
CloseAlert(u, header, id) ==
    AlertTransition("CloseAlert", "CLOSED", "ALERT_CLOSED", u, header, id)

-----------------------------------------------------------------------------
(* Firmware updates over the air.                                          *)

MaxOtaJobs == 1         \* OtaJob rows ever created

\* FirmwarePackage rows (registered by a platform admin) and their versions.
FirmwarePackages == [fw1 |-> "v2", fw2 |-> "v1"]

OtaOthers == UNCHANGED <<authIn, authOut, entitlements, commands, creates, polls,
                         pollLog, clock, telemetry, devices, twins, sites, ingests,
                         ingestCount, rules, alerts, notifications, sweeps, regVars>>

\* POST /api/ota/jobs by user u: enforceTenancy, requireRoles, the firmware
\* lookup, otaJob.create with status SCHEDULED, the audit row, 201.  The
\* create has no tenantId when a platform admin names no tenant.
CreateOtaJob(u, header, targetType, deviceId, firmwarePackageId, scheduledAt) ==
        LET t == enforceTenancy(u, NoTenant, header, NoTenant)
            r == requireRoles({"PLATFORM_ADMIN", "TENANT_ADMIN"}, u, t.tenantId, NoTenant, header)
            out(code) == [op |-> "CreateOtaJob", code |-> code]
        IN
        /\ OtaOthers
        /\ UNCHANGED <<reports, firmwareVersion>>
        /\ \/ /\ t.code # "OK"
              /\ resp' = out(t.code)
              /\ UNCHANGED <<otaJobs, audit, auditUp>>
           \/ /\ t.code = "OK" /\ r # "OK"
              /\ resp' = out(r)
              /\ UNCHANGED <<otaJobs, audit, auditUp>>
           \/ /\ t.code = "OK" /\ r = "OK" /\ firmwarePackageId \notin DOMAIN FirmwarePackages
              /\ resp' = out("NOT_FOUND")
              /\ UNCHANGED <<otaJobs, audit, auditUp>>
           \/ /\ t.code = "OK" /\ r = "OK" /\ firmwarePackageId \in DOMAIN FirmwarePackages
              /\ t.tenantId = NULL
              /\ resp' = out("INTERNAL_ERROR")
              /\ UNCHANGED <<otaJobs, audit, auditUp>>
           \/ /\ t.code = "OK" /\ r = "OK" /\ firmwarePackageId \in DOMAIN FirmwarePackages
              /\ t.tenantId # NULL
              /\ Len(otaJobs) < MaxOtaJobs
              /\ otaJobs' = Append(otaJobs,
                    [tenantId |-> t.tenantId, targetType |-> targetType,
                     deviceId |-> deviceId, firmwarePackageId |-> firmwarePackageId,
                     status |-> "SCHEDULED", scheduledAt |-> scheduledAt,
                     startedAt |-> NullNum, finishedAt |-> NullNum, progress |-> NullNum])
              /\ LET w == writeAuditLog(audit, AuditRow(t.tenantId, u, "USER",
                                 "OTA_JOB_SCHEDULED", "OtaJob", Len(otaJobs) + 1))
                 IN /\ audit' = w.log
                    /\ resp' = IF w.threw THEN out("INTERNAL_ERROR") ELSE out("CREATED")
              /\ UNCHANGED auditUp

\* A where clause without the tenant of the device.
PendingJobsOfAnyTenant(id) ==
    { j \in 1..Len(otaJobs) :
        /\ otaJobs[j].status \in {"SCHEDULED", "IN_PROGRESS"}
        /\ \/ otaJobs[j].targetType = "DEVICE" /\ otaJobs[j].deviceId = id
           \/ otaJobs[j].targetType = "GROUP" }

\* where: {tenantId: device.tenantId, status: {in: ['SCHEDULED', 'IN_PROGRESS']},
\*         OR: [{targetType: 'DEVICE', deviceId: device.id}, {targetType: 'GROUP'}]}
PendingJobs(id) ==
    { j \in 1..Len(otaJobs) :
        /\ otaJobs[j].tenantId = DeviceTenant[id]
        /\ otaJobs[j].status \in {"SCHEDULED", "IN_PROGRESS"}
        /\ \/ otaJobs[j].targetType = "DEVICE" /\ otaJobs[j].deviceId = id
           \/ otaJobs[j].targetType = "GROUP" }

\* GET /api/ota/devices/:id/ota/pending with the token of authDevice: the
\* first job by scheduledAt that is SCHEDULED or IN_PROGRESS in the device's
\* tenant and targets the device or a group; job is 0 for null.
OtaPending(authDevice, id) ==
        LET matching == PendingJobs(id)
            first == { j \in matching :
                         \A k \in matching : otaJobs[j].scheduledAt <= otaJobs[k].scheduledAt }
            out(code, job) == [op |-> "OtaPending", deviceId |-> id, code |-> code, job |-> job]
        IN
        /\ OtaOthers
        /\ UNCHANGED <<otaVars, audit, auditUp>>
        /\ \/ /\ PathMismatch(authDevice, id)
              /\ resp' = out("FORBIDDEN", 0)
           \/ /\ ~PathMismatch(authDevice, id) /\ id \notin DeviceIds
              /\ resp' = out("NOT_FOUND", 0)
           \/ /\ ~PathMismatch(authDevice, id) /\ id \in DeviceIds
              /\ \/ matching = {} /\ resp' = out("OK", 0)
                 \/ \E j \in first : resp' = out("OK", j)

\* POST /api/ota/devices/:id/ota/report with the token of authDevice and the
\* body {jobId, status, progress}, up to the read of the job.
OtaReportBegin(r, authDevice, id, jobId, status, progress) ==
        LET out(code) == [op |-> "OtaReport", deviceId |-> id, code |-> code] IN
        /\ reports[r] = Idle
        /\ OtaOthers
        /\ UNCHANGED <<otaJobs, firmwareVersion, audit, auditUp>>
        /\ \/ /\ PathMismatch(authDevice, id)
              /\ resp' = out("FORBIDDEN")
              /\ UNCHANGED reports
           \/ /\ ~PathMismatch(authDevice, id) /\ jobId \notin 1..Len(otaJobs)
              /\ resp' = out("NOT_FOUND")
              /\ UNCHANGED reports
           \/ /\ ~PathMismatch(authDevice, id) /\ jobId \in 1..Len(otaJobs)
              /\ reports' = [reports EXCEPT ![r] =
                    [stage |-> "update", deviceId |-> id, jobId |-> jobId,
                     status |-> status, progress |-> progress, job |-> otaJobs[jobId]]]
              /\ UNCHANGED resp

\* prisma.otaJob.update with updateData built from the body and the job as
\* read; a report other than SUCCESS answers here.
OtaReportUpdate(r) ==
    LET q == reports[r]
        terminal == q.status \in {"SUCCESS", "FAILED"}
        starts == q.status = "IN_PROGRESS" /\ q.job.status = "SCHEDULED"
    IN
    /\ q.stage = "update"
    /\ otaJobs' = [otaJobs EXCEPT ![q.jobId] =
            [@ EXCEPT !.progress = q.progress,
                      !.status = IF terminal THEN q.status
                                 ELSE IF starts THEN "IN_PROGRESS" ELSE @,
                      !.finishedAt = IF terminal THEN clock ELSE @,
                      !.startedAt = IF starts THEN clock ELSE @]]
    /\ IF q.status = "SUCCESS"
       THEN /\ reports' = [reports EXCEPT ![r].stage = "firmware"]
            /\ UNCHANGED resp
       ELSE /\ reports' = [reports EXCEPT ![r] = Idle]
            /\ resp' = [op |-> "OtaReport", deviceId |-> q.deviceId, code |-> "OK"]
    /\ OtaOthers
    /\ UNCHANGED <<firmwareVersion, audit, auditUp>>

\* The version of the first package of the table, whatever the job names.
versionOfFirstPackage(job) == FirmwarePackages.fw1

\* prisma.firmwarePackage.findUnique({where: {id: job.firmwarePackageId}}).version
versionOf(job) == FirmwarePackages[job.firmwarePackageId]

\* After SUCCESS: the firmware package of the job as read, then
\* device.update({where: {id: req.params.id}, data: {firmwareVersion}}),
\* which throws when there is no such device.
OtaReportFirmware(r) ==
    LET q == reports[r] IN
    /\ q.stage = "firmware"
    /\ firmwareVersion' = IF q.deviceId \in DeviceIds
                          THEN [firmwareVersion EXCEPT ![q.deviceId] = versionOf(q.job)]
                          ELSE firmwareVersion
    /\ resp' = [op |-> "OtaReport", deviceId |-> q.deviceId,
                code |-> IF q.deviceId \in DeviceIds THEN "OK" ELSE "INTERNAL_ERROR"]
    /\ reports' = [reports EXCEPT ![r] = Idle]
    /\ OtaOthers
    /\ UNCHANGED <<otaJobs, audit, auditUp>>

-----------------------------------------------------------------------------
(* Registration of firmware packages and devices.                          *)

MaxRegistered == 2      \* rows a behaviour adds to the FirmwarePackage or Device table

\* errorHandler(err): the code of an AppError as it is, VALIDATION_ERROR for a
\* ZodError, INTERNAL_ERROR for every other error; "P2002" is the error
\* the store's client throws on a unique-constraint violation.
errorHandler(err) ==
    IF err \in {"VALIDATION_ERROR", "UNAUTHORIZED", "FORBIDDEN", "NOT_FOUND", "CONFLICT",
                "FEATURE_DISABLED"}
    THEN err
    ELSE IF err = "ZodError" THEN "VALIDATION_ERROR"
    ELSE "INTERNAL_ERROR"

\* POST /api/ota/firmware by user u with body {version}: requireRoles
\* ('PLATFORM_ADMIN'), firmwarePackage.create (the unique index on version
\* rejects a second row), the audit row, 201.
RegisterFirmware(u, header, version) ==
        LET r == requireRoles({"PLATFORM_ADMIN"}, u, NULL, NoTenant, header)
            taken == \E k \in 1..Len(firmware) : firmware[k] = version
            out(code) == [op |-> "RegisterFirmware", code |-> code]
        IN
        /\ UNCHANGED <<authIn, authOut, entitlements, commands, creates, polls, pollLog,
                       clock, auditUp, telemetry, devices, twins, sites, ingests,
                       ingestCount, rules, alerts, notifications, sweeps, otaVars,
                       serials, registers, outbox, runs, tenants>>
        /\ \/ /\ r # "OK"
              /\ resp' = out(r)
              /\ UNCHANGED <<firmware, audit>>
           \/ /\ r = "OK" /\ taken
              /\ resp' = out(errorHandler("P2002"))
              /\ UNCHANGED <<firmware, audit>>
           \/ /\ r = "OK" /\ ~taken
              /\ Len(firmware) < 2 + MaxRegistered
              /\ firmware' = Append(firmware, version)
              /\ LET w == writeAuditLog(audit, AuditRow(NULL, u, "USER", "FIRMWARE_REGISTERED",
                                                        "FirmwarePackage", Len(firmware) + 1))
                 IN /\ audit' = w.log
                    /\ resp' = IF w.threw THEN out("INTERNAL_ERROR") ELSE out("CREATED")

\* POST /api/devices by user u with body {serialNumber}, up to the create:
\* enforceTenancy, requireRoles, the findUnique on (tenantId, serialNumber)
\* (which throws when the tenantId is undefined) and the ConflictError when a
\* row exists.
RegisterDeviceBegin(i, u, header, serialNumber) ==
        LET t == enforceTenancy(u, NoTenant, header, NoTenant)
            r == requireRoles({"PLATFORM_ADMIN", "TENANT_ADMIN", "INSTALLER"}, u,
                              t.tenantId, NoTenant, header)
            existing == \E k \in 1..Len(serials) :
                           serials[k] = [tenantId |-> t.tenantId, serialNumber |-> serialNumber]
            out(code) == [op |-> "RegisterDevice", code |-> code]
        IN
        /\ registers[i] = Idle
        /\ UNCHANGED <<authIn, authOut, entitlements, commands, creates, polls, pollLog,
                       clock, audit, auditUp, telemetry, devices, twins, sites, ingests,
                       ingestCount, rules, alerts, notifications, sweeps, otaVars,
                       firmware, serials, outbox, runs, tenants>>
        /\ \/ /\ t.code # "OK"
              /\ resp' = out(t.code)
              /\ UNCHANGED registers
           \/ /\ t.code = "OK" /\ r # "OK"
              /\ resp' = out(r)
              /\ UNCHANGED registers
           \/ /\ t.code = "OK" /\ r = "OK" /\ t.tenantId = NULL
              /\ resp' = out(errorHandler("PrismaClientValidationError"))
              /\ UNCHANGED registers
           \/ /\ t.code = "OK" /\ r = "OK" /\ t.tenantId # NULL /\ existing
              /\ resp' = out(errorHandler("CONFLICT"))
              /\ UNCHANGED registers
           \/ /\ t.code = "OK" /\ r = "OK" /\ t.tenantId # NULL /\ ~existing
              /\ Len(serials) + Pending(registers) < 2 + MaxRegistered
              /\ registers' = [registers EXCEPT ![i] =
                    [stage |-> "create", tenantId |-> t.tenantId, user |-> u,
                     serialNumber |-> serialNumber]]
              /\ UNCHANGED resp

\* device.create (the unique index on (tenantId, serialNumber) rejects a
\* second row), the secret and the twin of the new device, the audit row, 201.
\* The secret and twin rows are keyed by the new device's id, which no other
\* modelled request names.
RegisterDeviceCreate(i) ==
        LET q == registers[i]
            taken == \E k \in 1..Len(serials) :
                        serials[k] = [tenantId |-> q.tenantId, serialNumber |-> q.serialNumber]
            out(code) == [op |-> "RegisterDevice", code |-> code]
        IN
        /\ q.stage = "create"
        /\ registers' = [registers EXCEPT ![i] = Idle]
        /\ UNCHANGED <<authIn, authOut, entitlements, commands, creates, polls, pollLog,
                       clock, auditUp, telemetry, devices, twins, sites, ingests,
                       ingestCount, rules, alerts, notifications, sweeps, otaVars,
                       firmware, outbox, runs, tenants>>
        /\ \/ /\ taken
              /\ resp' = out(errorHandler("P2002"))
              /\ UNCHANGED <<serials, audit>>
           \/ /\ ~taken
              /\ serials' = Append(serials, [tenantId |-> q.tenantId,
                                             serialNumber |-> q.serialNumber])
              /\ LET w == writeAuditLog(audit, AuditRow(q.tenantId, q.user, "USER",
                                                        "DEVICE_REGISTERED", "Device",
                                                        Len(serials) + 1))
                 IN /\ audit' = w.log
                    /\ resp' = IF w.threw THEN out("INTERNAL_ERROR") ELSE out("CREATED")

-----------------------------------------------------------------------------
(* Tenant records.                                                         *)

\* updateTenantSchema: each field is optional; an absent field is NULL.
TenantPatches ==
    { [name |-> "n1", status |-> NULL], [name |-> NULL, status |-> "SUSPENDED"] }

\* PATCH /api/tenants/:id by user u: requireRoles without enforceTenancy (so
\* req.tenantId is unset and the route has no :tenantId), tenant.update by
\* the path id (which throws when there is no such row), the audit row, 200.
PatchTenant(u, header, id, body) ==
        LET r == requireRoles({"PLATFORM_ADMIN", "TENANT_ADMIN"}, u, NULL, NoTenant, header)
            out(code) == Response("PatchTenant", u, id, header, code, {})
        IN
        /\ UNCHANGED <<authIn, authOut, entitlements, commands, creates, polls, pollLog,
                       clock, auditUp, telemetry, devices, twins, sites, ingests,
                       ingestCount, rules, alerts, notifications, sweeps, otaVars,
                       firmware, serials, registers, outbox, runs>>
        /\ \/ /\ r # "OK"
              /\ resp' = out(r)
              /\ UNCHANGED <<tenants, audit>>
           \/ /\ r = "OK" /\ id \notin Tenants
              /\ resp' = out(errorHandler("P2025"))
              /\ UNCHANGED <<tenants, audit>>
           \/ /\ r = "OK" /\ id \in Tenants
              /\ tenants' = [tenants EXCEPT ![id] =
                    [name |-> IF body.name # NULL THEN body.name ELSE @.name,
                     status |-> IF body.status # NULL THEN body.status ELSE @.status]]
              /\ LET w == writeAuditLog(audit, AuditRow(id, u, "USER", "TENANT_UPDATED",
                                                        "Tenant", id))
                 IN /\ audit' = w.log
                    /\ resp' = IF w.threw THEN out("INTERNAL_ERROR") ELSE out("OK")

-----------------------------------------------------------------------------
(* The notification consumer.                                              *)

MaxEvents == 3          \* NotificationEvent rows in the table
TakeLimit == 2          \* `take: 100` of the consumer, scaled to the table

\* A NotificationEvent as the consumer sees it; `invoked` counts the calls of
\* its channel adapter.
QueuedEvent(createdAt) ==
    [status |-> "QUEUED", createdAt |-> createdAt, sentAt |-> NullNum,
     errorMsg |-> NULL, invoked |-> 0]

ConsumerOthers == UNCHANGED <<authIn, authOut, resp, entitlements, commands, creates,
                              polls, pollLog, clock, audit, auditUp, telemetry, devices,
                              twins, sites, ingests, ingestCount, rules, alerts,
                              notifications, sweeps, otaVars, firmware, serials,
                              registers, tenants>>

\* findMany({where: {status: 'QUEUED'}, include: {channel: true}, take}): no
\* orderBy, so which rows come back is the store's choice.
AnyQueued(queued, take) ==
    LET size == IF Cardinality(queued) < take THEN Cardinality(queued) ELSE take
    IN { B \in SUBSET queued : Cardinality(B) = size }

\* The cron tick calls processNotificationQueue (a tick does not wait for the
\* run before it): the QUEUED rows are read.
RunStart(r) ==
    /\ runs[r] = Idle
    /\ \E batch \in AnyQueued({ e \in 1..Len(outbox) : outbox[e].status = "QUEUED" },
                              TakeLimit) :
          runs' = [runs EXCEPT ![r] = [stage |-> "send", batch |-> batch]]
    /\ UNCHANGED outbox
    /\ ConsumerOthers

\* One turn of the loop: the adapter of the channel is called and the row is
\* updated by id, to SENT with sentAt, or in the catch to FAILED with
\* errorMsg.
RunSend(r, ok) ==
    /\ runs[r] # Idle
    /\ \E e \in runs[r].batch :
          /\ outbox' = [outbox EXCEPT ![e] =
                IF ok THEN [@ EXCEPT !.status = "SENT", !.sentAt = clock,
                                     !.invoked = @ + 1]
                ELSE [@ EXCEPT !.status = "FAILED", !.errorMsg = "err.message",
                               !.invoked = @ + 1]]
          /\ runs' = [runs EXCEPT ![r].batch = @ \ {e}]
    /\ ConsumerOthers

\* processNotificationQueue returns.
RunEnd(r) ==
    /\ runs[r] # Idle
    /\ runs[r].batch = {}
    /\ runs' = [runs EXCEPT ![r] = Idle]
    /\ UNCHANGED outbox
    /\ ConsumerOthers

-----------------------------------------------------------------------------
(* Initial states and specifications.                                      *)

NoOutcome == [code |-> "NONE", deviceId |-> <<>>]
NoResponse == [op |-> "none", code |-> "none"]

\* No device request has been authenticated yet.
InitAuthIdle ==
    /\ authIn = [hasBearer |-> FALSE, token |-> <<>>]
    /\ authOut = NoOutcome

\* Empty Entitlement, AuditLog and Command tables, nothing in flight.
InitQueue ==
    /\ resp = NoResponse
    /\ entitlements = {}
    /\ audit = {}
    /\ auditUp = TRUE
    /\ commands = <<>>
    /\ creates = [i \in Slots |-> Idle]
    /\ polls = [i \in Slots |-> Idle]
    /\ pollLog = <<>>

\* Devices as registration leaves them (no lastSeenAt, a twin with
\* { isOnline: false, healthScore: 0 }), sites without a location.
InitFleet ==
    /\ telemetry = <<>>
    /\ devices = [d \in DeviceIds |->
                    [lastSeenAt |-> NullNum, deviceLat |-> NullNum, deviceLon |-> NullNum,
                     deviceLocationTs |-> NullNum]]
    /\ twins = [d \in DeviceIds |-> [lastTs |-> NullNum, derivedState |-> InitialDerivedState]]
    /\ sites = [s \in SiteIds |->
                  [lat |-> NullNum, lon |-> NullNum, locationSource |-> NULL,
                   locationLock |-> FALSE]]
    /\ ingests = [i \in Slots |-> Idle]
    /\ ingestCount = 0

\* No alert raised, no sweep running.
InitAlerting ==
    /\ alerts = <<>>
    /\ notifications = {}
    /\ sweeps = [i \in Slots |-> Idle]

\* No firmware update scheduled; devices report no firmware version yet.
\* The FirmwarePackage and Device tables hold the rows of the fixed fleet.
InitOta ==
    /\ otaJobs = <<>>
    /\ reports = [i \in Slots |-> Idle]
    /\ firmwareVersion = [d \in DeviceIds |-> NULL]
    /\ firmware = <<FirmwarePackages.fw1, FirmwarePackages.fw2>>
    /\ serials = << [tenantId |-> "tA", serialNumber |-> "sn1"],
                    [tenantId |-> "tB", serialNumber |-> "sn2"] >>
    /\ registers = [i \in Slots |-> Idle]
    /\ outbox = <<>>
    /\ runs = [i \in Slots |-> Idle]
    /\ tenants = [t \in Tenants |-> [name |-> "n0", status |-> "ACTIVE"]]

\* The server has started: the fleet is registered, every other table is
\* empty and no request is being served.
InitServer ==
    /\ InitAuthIdle /\ InitQueue /\ clock = 0 /\ InitFleet /\ rules = <<>> /\ InitAlerting
    /\ InitOta

\* ---- device authentication: one bearer token per behaviour ----

InitAuth ==
    /\ \E hasBearer \in BOOLEAN, token \in Tokens :
          authIn = [hasBearer |-> hasBearer, token |-> IF hasBearer THEN token ELSE <<>>]
    /\ authOut = NoOutcome
    /\ InitQueue /\ clock = 0 /\ InitFleet /\ rules = <<>> /\ InitAlerting
    /\ InitOta

\* The middleware runs on the request.
AuthenticateDevice ==
    /\ authOut = NoOutcome
    /\ authOut' = authenticateDevice(authIn.hasBearer, authIn.token)
    /\ UNCHANGED <<authIn, resp, entitlements, commands, creates, polls, pollLog, clock,
                   audit, auditUp, telemetry, devices, twins, sites, ingests, ingestCount, rules,
                   alerts, notifications, sweeps, otaVars, regVars>>

NextAuth == AuthenticateDevice
SpecAuth == InitAuth /\ [][NextAuth]_vars

\* ---- user-facing reads ----

NextRead == GetTenant \/ GetDashboardSummary \/ ListDevices \/ GetDevice
SpecRead == InitServer /\ [][NextRead]_vars

\* ---- the tenancy and role middlewares, and routes behind them ----

\* Every user, with every way of naming a tenant, meets the two middlewares
\* and lists and reads devices; a member, a member without access and a
\* non-member of tenant tA set the location of site s1.
NextGuard ==
    \/ EnforceTenancy
    \/ RequireRoles
    \/ ListDevices
    \/ GetDevice
    \/ \E u \in {"uA", "uB", "uE"}, header \in HeaderValues, loc \in UserLocations :
          PatchSiteLocation(u, header, "s1", loc, "unset")
SpecGuard == InitServer /\ [][NextGuard]_vars

\* ---- command queue of device d1 ----

\* Tenant admins of both tenants ask for commands on d1; d1 polls and
\* acknowledges, and d2 tries d1's queue with its own token.
NextCmd ==
    \/ \E i \in Slots, u \in {"uA", "uB"} : CreateCommandBegin(i, u, "d1", "tA")
    \/ \E i \in Slots : CreateCommandInsert(i)
    \/ \E p \in Slots, authDevice \in DeviceIds : PollPendingRead(p, authDevice, "d1")
    \/ \E p \in Slots : PollPendingMark(p)
    \/ \E commandId \in CmdIds, status \in {"ACKED", "FAILED"} :
          AckCommand("d1", "d1", commandId, status)
SpecCmd == InitServer /\ [][NextCmd]_vars

\* ---- the device-side endpoints of d1 ----

\* The admin of tA queues a command and schedules a firmware update for d1;
\* d1 and d2 each call d1's endpoints with their own token.
NextSelf ==
    \/ commands = <<>> /\ CreateCommandBegin(1, "uA", "d1", "tA")
    \/ CreateCommandInsert(1)
    \/ \E authDevice \in DeviceIds : PollPendingRead(1, authDevice, "d1")
    \/ PollPendingMark(1)
    \/ \E authDevice \in DeviceIds, commandId \in CmdIds :
          AckCommand(authDevice, "d1", commandId, "ACKED")
    \/ \E u \in {"uA", "uE"}, firmwarePackageId \in {"fw1", "fwX"} :
          CreateOtaJob(u, "tA", "DEVICE", "d1", firmwarePackageId, 0)
    \/ \E authDevice \in DeviceIds : OtaPending(authDevice, "d1")
    \/ \E authDevice \in DeviceIds, jobId \in 1..(MaxOtaJobs + 1),
          status \in {"IN_PROGRESS", "SUCCESS"} :
          OtaReportBegin(1, authDevice, "d1", jobId, status, 50)
    \/ OtaReportUpdate(1)
    \/ OtaReportFirmware(1)
SpecSelf == InitServer /\ [][NextSelf]_vars

\* ---- the order in which device d1 receives its commands ----

\* Commands are created while the clock runs and d1 polls.
NextOrder ==
    \/ Tick
    \/ \E i \in Slots, u \in {"uA", "uB"} : CreateCommandBegin(i, u, "d1", "tA")
    \/ \E i \in Slots : CreateCommandInsert(i)
    \/ \E p \in Slots, authDevice \in DeviceIds : PollPendingRead(p, authDevice, "d1")
    \/ \E p \in Slots : PollPendingMark(p)
SpecOrder == InitServer /\ [][NextOrder]_vars

\* ---- entitlement table ----

\* Every user writes entitlements of tenant tA, or names no tenant.
NextEnt ==
    \E u \in Users, header \in {"tA", NoTenant}, scope \in EntScopes,
       deviceId \in DeviceIds \cup {NULL}, key \in EntKeys, enabled \in BOOLEAN :
        PutEntitlement(u, header, scope, deviceId, key, enabled)
SpecEnt == InitServer /\ [][NextEnt]_vars

\* ---- the entitlement gate of command creation ----

\* The admin of tenant tA switches BASIC_REMOTE_BOOST of device d1 on and
\* off while every user asks for commands with every tenant header.
NextGate ==
    \/ \E enabled \in BOOLEAN :
          PutEntitlement("uA", "tA", "DEVICE", "d1", "BASIC_REMOTE_BOOST", enabled)
    \/ \E i \in Slots, u \in Users, id \in PathDeviceIds, header \in HeaderValues :
          CreateCommandBegin(i, u, id, header)
    \/ \E i \in Slots : CreateCommandInsert(i)
SpecGate == InitServer /\ [][NextGate]_vars

\* ---- command creation across tenants ----

\* The admin of tA switches BASIC_REMOTE_BOOST of the tenant off; a member
\* of tA and a member of both tenants ask, one request at a time, for
\* commands on a device of either tenant or on an unknown id, under the
\* header of either tenant.
NextCreate ==
    \/ PutEntitlement("uA", "tA", "TENANT", NULL, "BASIC_REMOTE_BOOST", FALSE)
    \/ \E u \in {"uA", "uE"}, id \in PathDeviceIds, header \in Tenants :
          CreateCommandBegin(1, u, id, header)
    \/ CreateCommandInsert(1)
SpecCreate == InitServer /\ [][NextCreate]_vars

\* ---- the audited operations while the audit store comes and goes ----

\* The admin of tA creates a command for d1, switches an entitlement on, sets
\* the location of site s1 and schedules a firmware update; d1 acknowledges
\* the command and sends a reading with a position.  The store refuses or
\* accepts AuditLog rows at any moment.
NextAudit ==
    \/ AuditStoreChanges
    \/ commands = <<>> /\ CreateCommandBegin(1, "uA", "d1", "tA")
    \/ CreateCommandInsert(1)
    \/ AckCommand("d1", "d1", 1, "ACKED")
    \/ PutEntitlement("uA", "tA", "TENANT", NULL, "SMART_HOME_INTEGRATION", TRUE)
    \/ \E loc \in UserLocations : PatchSiteLocation("uA", "tA", "s1", loc, "true")
    \/ CreateOtaJob("uA", "tA", "DEVICE", "d1", "fw1", 0)
    \/ \E geo \in GeoInputs \ {NoGeo} :
          ingestCount = 0 /\ IngestBegin(1, "d1", "d1", 1, [tankTempC |-> 90], geo)
    \/ IngestStore(1)
    \/ IngestDeviceUpdate(1)
    \/ IngestTwinRead(1)
    \/ IngestTwinUpsert(1)
    \/ IngestSiteReconcile(1)
SpecAudit == InitServer /\ [][NextAudit]_vars

\* ---- writes that meet a unique index ----

\* The platform admin registers firmware versions, one of them already
\* registered; the admins of tA and tB register devices under serial numbers
\* of which one is already used in tA, two requests at a time; the platform
\* admin registers a device without naming a tenant.
NextConflict ==
    \/ \E u \in {"uA", "uP"}, version \in {"v2", "v3"} : RegisterFirmware(u, "tA", version)
    \/ \E i \in Slots, u \in {"uA", "uE"}, header \in Tenants, serialNumber \in {"sn1", "sn3"} :
          RegisterDeviceBegin(i, u, header, serialNumber)
    \/ \E i \in Slots : RegisterDeviceBegin(i, "uP", NoTenant, "sn3")
    \/ \E i \in Slots : RegisterDeviceCreate(i)
SpecConflict == InitServer /\ [][NextConflict]_vars

\* ---- the location of a site, set by users ----

\* The admin of tA, an end user of tA without a device on site s1, the end
\* user who owns d1 on s1 and a platform admin set the location of either
\* site and lock or unlock it, under every tenant header.
NextSite ==
    \E u \in {"uA", "uE", "uO", "uP"}, header \in HeaderValues, siteId \in SiteIds,
       loc \in UserLocations, lock \in {"unset", "true", "false"} :
        PatchSiteLocation(u, header, siteId, loc, lock)
SpecSite == InitServer /\ [][NextSite]_vars

\* ---- telemetry ingest of device d1 and the location of its site ----

\* d1 (or an unregistered id, or a token of another id) sends readings while
\* users of tenant tA and tB set the location of site s1.
NextIngest ==
    \/ \E i \in Slots, authDevice \in {"d1", "dX"}, deviceId \in {"d1", "dX"},
          ts \in 1..MaxTs, metrics \in {[tankTempC |-> 90]}, geo \in GeoInputs :
          IngestBegin(i, authDevice, deviceId, ts, metrics, geo)
    \/ \E i \in Slots : IngestStore(i)
    \/ \E i \in Slots : IngestDeviceUpdate(i)
    \/ \E i \in Slots : IngestTwinRead(i)
    \/ \E i \in Slots : IngestTwinUpsert(i)
    \/ \E i \in Slots : IngestSiteReconcile(i)
    \/ \E u \in {"uA", "uB", "uE"}, loc \in UserLocations, lock \in {"unset", "true", "false"} :
          PatchSiteLocation(u, "tA", "s1", loc, lock)
SpecIngest == InitServer /\ [][NextIngest]_vars

\* ---- the twin of device d1 under overlapping ingests ----

\* d1 sends readings without geo, with the same or different ts and with the
\* same or different metrics.
NextTwin ==
    \/ \E i \in Slots, authDevice \in {"d1", "dX"}, deviceId \in {"d1", "dX"},
          ts \in 1..MaxTs, metrics \in MetricInputs \cup {[tankTempC |-> 40]} :
          IngestBegin(i, authDevice, deviceId, ts, metrics, NoGeo)
    \/ \E i \in Slots : IngestStore(i)
    \/ \E i \in Slots : IngestDeviceUpdate(i)
    \/ \E i \in Slots : IngestTwinRead(i)
    \/ \E i \in Slots : IngestTwinUpsert(i)
    \/ \E i \in Slots : IngestSiteReconcile(i)
SpecTwin == InitServer /\ [][NextTwin]_vars

\* ---- a token of another device on the ingest endpoint ----

\* d1 sends its readings one call at a time; meanwhile the tokens of d2 and
\* of an unregistered id post readings that name d1 or no device.
NextMismatch ==
    \/ \E ts \in 1..MaxTs, geo \in GeoInputs :
          IngestBegin(1, "d1", "d1", ts, [tankTempC |-> 90], geo)
    \/ \E authDevice \in {"d2", "dX"}, deviceId \in {"d1", "dX"}, geo \in GeoInputs :
          IngestBegin(2, authDevice, deviceId, 1, [tankTempC |-> 40], geo)
    \/ \E i \in Slots : IngestStore(i)
    \/ \E i \in Slots : IngestDeviceUpdate(i)
    \/ \E i \in Slots : IngestTwinRead(i)
    \/ \E i \in Slots : IngestTwinUpsert(i)
    \/ \E i \in Slots : IngestSiteReconcile(i)
SpecMismatch == InitServer /\ [][NextMismatch]_vars

\* ---- alert evaluator ----

\* The fleet after each device has completed one ingest of `metrics` at ts 1.
SeenFleet(metrics) ==
    /\ telemetry = << [deviceId |-> "d1", ts |-> 1, metrics |-> metrics, geo |-> NoGeo],
                      [deviceId |-> "d2", ts |-> 1, metrics |-> metrics, geo |-> NoGeo] >>
    /\ devices = [d \in DeviceIds |->
                    [lastSeenAt |-> 1, deviceLat |-> NullNum, deviceLon |-> NullNum,
                     deviceLocationTs |-> NullNum]]
    /\ twins = [d \in DeviceIds |->
                  [lastTs |-> 1,
                   derivedState |-> computeDerivedState(metrics, NoGeo, InitialDerivedState)]]
    /\ sites = [s \in SiteIds |->
                  [lat |-> NullNum, lon |-> NullNum, locationSource |-> NULL,
                   locationLock |-> FALSE]]
    /\ ingests = [i \in Slots |-> Idle]
    /\ ingestCount = 2

InitAlert ==
    /\ InitAuthIdle /\ InitQueue /\ clock = 0
    /\ InitFleet \/ \E metrics \in MetricInputs : SeenFleet(metrics)
    /\ rules \in RuleTables
    /\ InitAlerting
    /\ InitOta

\* Sweeps of the evaluator overlap each other and the ack/close calls of the
\* tenant admins, who name a tenant and an alert id that exists or the next
\* one that does not.
NextAlert ==
    \/ Tick
    \/ \E s \in Slots : SweepStart(s)
    \/ \E s \in Slots : SweepCheck(s)
    \/ \E s \in Slots : SweepCreate(s)
    \/ \E s \in Slots : SweepNotify(s)
    \/ \E s \in Slots : SweepEnd(s)
    \/ \E u \in {"uA", "uB"}, header \in Tenants, id \in 1..(Len(alerts) + 1) :
          AckAlert(u, header, id)
    \/ \E u \in {"uA", "uB"}, header \in Tenants, id \in 1..(Len(alerts) + 1) :
          CloseAlert(u, header, id)
SpecAlert == InitAlert /\ [][NextAlert]_vars

\* ---- sweeps whose notification store may refuse a write ----

NextNotify ==
    \/ \E s \in Slots : SweepStart(s)
    \/ \E s \in Slots : SweepCheck(s)
    \/ \E s \in Slots : SweepCreate(s)
    \/ \E s \in Slots : SweepNotify(s)
    \/ \E s \in Slots : SweepNotifyFails(s)
    \/ \E s \in Slots : SweepEnd(s)
SpecNotify == InitAlert /\ [][NextNotify]_vars

\* ---- two runs of the evaluator, one after the other ----

\* The first run has read the rules of a fleet in which d1 has no alert yet,
\* or one of its first rule that a user has closed.
InitSweep ==
    /\ InitAuthIdle /\ InitQueue /\ clock \in 0..MaxClock
    /\ InitFleet \/ \E metrics \in MetricInputs : SeenFleet(metrics)
    /\ rules \in RuleTables
    /\ \/ alerts = <<>> /\ notifications = {}
       \/ /\ alerts = << [NewAlertEvent(rules[1], "d1", DedupeKey("d1", rules[1].id))
                            EXCEPT !.status = "CLOSED", !.closedAt = 0] >>
          /\ notifications = NotificationsFor(rules[1].tenantId, 1, rules[1].severity)
    /\ sweeps = [i \in Slots |-> IF i = 1 THEN [stage |-> "check", work |-> WorkList(1)]
                                 ELSE Idle]
    /\ InitOta

\* The scheduler starts the next run when the one before it has returned;
\* nothing else touches the store.
NextSweep ==
    \/ sweeps[1] = Idle /\ SweepStart(2)
    \/ \E s \in Slots : SweepCheck(s)
    \/ \E s \in Slots : SweepCreate(s)
    \/ \E s \in Slots : SweepNotify(s)
    \/ \E s \in Slots : SweepEnd(s)
SpecSweep == InitSweep /\ [][NextSweep]_vars

\* ---- the predicates of OVER_TEMP and SENSOR_OUT_OF_RANGE ----

MaxRows == 3            \* readings d1 has sent before the run

\* derivedState of a twin after ingests of `rows`, oldest first.
RECURSIVE TwinAfter(_)
TwinAfter(rows) ==
    IF rows = <<>> THEN InitialDerivedState
    ELSE computeDerivedState(rows[Len(rows)].metrics, NoGeo,
                             TwinAfter(SubSeq(rows, 1, Len(rows) - 1)))

\* A run of the evaluator has read the one rule of tenant tA, an OVER_TEMP or
\* SENSOR_OUT_OF_RANGE rule with or without parameters; d1 has sent up to
\* MaxRows readings, one per tick, each with a tank temperature or without
\* one.  No alert exists yet.
InitRule ==
    /\ InitAuthIdle /\ InitQueue /\ clock = 0 /\ InitOta
    /\ \E type \in {"OVER_TEMP", "SENSOR_OUT_OF_RANGE"} :
       \E params \in IF type = "OVER_TEMP"
                     THEN {EmptyMap, [thresholdC |-> 0], [thresholdC |-> -11],
                           [thresholdC |-> 86]}
                     ELSE {EmptyMap, [repeatCount |-> 1],
                           [min |-> 0, max |-> 85, repeatCount |-> 2],
                           [metric |-> "rssiDbm", min |-> -100, repeatCount |-> 1]} :
          rules = << [id |-> "r1", tenantId |-> "tA", type |-> type, severity |-> "WARNING",
                      enabled |-> TRUE, params |-> params] >>
    /\ \E n \in 0..MaxRows :
       \E ms \in [1..n -> { [tankTempC |-> v] : v \in {-11, -10, 0, 85, 86, 121} }
                          \cup { [rssiDbm |-> -110] }] :
          /\ telemetry = [k \in 1..n |-> [deviceId |-> "d1", ts |-> k, metrics |-> ms[k],
                                          geo |-> NoGeo]]
          /\ devices = [d \in DeviceIds |->
                          [lastSeenAt |-> IF d = "d1" /\ n > 0 THEN n ELSE NullNum,
                           deviceLat |-> NullNum, deviceLon |-> NullNum,
                           deviceLocationTs |-> NullNum]]
          /\ ingestCount = n
    /\ twins = [d \in DeviceIds |->
                  IF d = "d1" /\ telemetry # <<>>
                  THEN [lastTs |-> Len(telemetry), derivedState |-> TwinAfter(telemetry)]
                  ELSE [lastTs |-> NullNum, derivedState |-> InitialDerivedState]]
    /\ sites = [s \in SiteIds |->
                  [lat |-> NullNum, lon |-> NullNum, locationSource |-> NULL,
                   locationLock |-> FALSE]]
    /\ ingests = [i \in Slots |-> Idle]
    /\ alerts = <<>> /\ notifications = {}
    /\ sweeps = [i \in Slots |-> IF i = 1 THEN [stage |-> "check", work |-> WorkList(1)]
                                 ELSE Idle]

\* The run evaluates the rule for d1 and returns.
NextRule == SweepCheck(1) \/ SweepCreate(1) \/ SweepNotify(1) \/ SweepEnd(1)
SpecRule == InitRule /\ [][NextRule]_vars

\* ---- the notification consumer over a table of queued and finished rows ----

\* Rows in order of creation, each QUEUED or already sent or failed by an
\* earlier run; no run is in flight.
InitConsumer ==
    /\ InitAuthIdle /\ InitQueue /\ clock = 0 /\ InitFleet /\ rules = <<>> /\ InitAlerting
    /\ otaJobs = <<>>
    /\ reports = [i \in Slots |-> Idle]
    /\ firmwareVersion = [d \in DeviceIds |-> NULL]
    /\ firmware = <<FirmwarePackages.fw1, FirmwarePackages.fw2>>
    /\ serials = <<>>
    /\ registers = [i \in Slots |-> Idle]
    /\ \E n \in 0..MaxEvents : \E st \in [1..n -> {"QUEUED", "SENT", "FAILED"}] :
          outbox = [e \in 1..n |->
                      CASE st[e] = "QUEUED" -> QueuedEvent(e)
                        [] st[e] = "SENT" -> [QueuedEvent(e) EXCEPT !.status = "SENT",
                                                 !.sentAt = 0, !.invoked = 1]
                        [] st[e] = "FAILED" -> [QueuedEvent(e) EXCEPT !.status = "FAILED",
                                                 !.errorMsg = "err.message",
                                                 !.invoked = 1]]
    /\ runs = [i \in Slots |-> Idle]
    /\ tenants = [t \in Tenants |-> [name |-> "n0", status |-> "ACTIVE"]]

\* Cron ticks start runs that overlap; the adapter succeeds or throws.
NextConsumer ==
    \/ \E r \in Slots : RunStart(r)
    \/ \E r \in Slots, ok \in BOOLEAN : RunSend(r, ok)
    \/ \E r \in Slots : RunEnd(r)
SpecConsumer == InitConsumer /\ [][NextConsumer]_vars

\* ---- the device-side OTA endpoints over a table of two jobs ----

\* An OtaJob row in a given status, with the timestamps the routes have set
\* on the way to it.
JobRow(tenantId, targetType, deviceId, firmwarePackageId, status, scheduledAt) ==
    [tenantId |-> tenantId, targetType |-> targetType, deviceId |-> deviceId,
     firmwarePackageId |-> firmwarePackageId, status |-> status,
     scheduledAt |-> scheduledAt,
     startedAt |-> IF status = "IN_PROGRESS" THEN 0 ELSE NullNum,
     finishedAt |-> IF status \in {"SUCCESS", "FAILED", "CANCELED"} THEN 0 ELSE NullNum,
     progress |-> NullNum]

\* Two jobs, each of either tenant, for either device or a group, in any
\* status; the second is scheduled before, with or after the first.
InitJobs ==
    /\ InitAuthIdle /\ InitQueue /\ clock = 1 /\ InitFleet /\ rules = <<>> /\ InitAlerting
    /\ \E t1, t2 \in Tenants :
       \E g1, g2 \in {<<"DEVICE", "d1">>, <<"DEVICE", "d2">>, <<"GROUP", NULL>>} :
       \E s1, s2 \in {"SCHEDULED", "IN_PROGRESS", "SUCCESS", "FAILED", "CANCELED"} :
       \E at \in 0..2 :
          otaJobs = << JobRow(t1, g1[1], g1[2], "fw1", s1, 1),
                       JobRow(t2, g2[1], g2[2], "fw2", s2, at) >>
    /\ reports = [i \in Slots |-> Idle]
    /\ firmwareVersion = [d \in DeviceIds |-> NULL]
    /\ firmware = <<FirmwarePackages.fw1, FirmwarePackages.fw2>>
    /\ serials = <<>>
    /\ registers = [i \in Slots |-> Idle]
    /\ outbox = <<>>
    /\ runs = [i \in Slots |-> Idle]
    /\ tenants = [t \in Tenants |-> [name |-> "n0", status |-> "ACTIVE"]]

\* Each device pulls with its own token, for its own path id or the other's.
NextPull ==
    \E authDevice \in DeviceIds, id \in DeviceIds : OtaPending(authDevice, id)
SpecPull == InitJobs /\ [][NextPull]_vars

\* ---- reports of the devices on two jobs ----

\* The first job is any; the second is a group update of tenant tA.
InitReport ==
    /\ InitJobs
    /\ otaJobs[2] = JobRow("tA", "GROUP", NULL, "fw2", "SCHEDULED", 1)

\* Each device reports with its own token, for its own path id or the
\* other's, on a job that exists or on one that does not.
NextReport ==
    \/ \E authDevice \in DeviceIds, id \in DeviceIds, jobId \in 1..3,
          status \in {"IN_PROGRESS", "SUCCESS", "FAILED"} :
          OtaReportBegin(1, authDevice, id, jobId, status, 50)
    \/ OtaReportUpdate(1)
    \/ OtaReportFirmware(1)
SpecReport == InitReport /\ [][NextReport]_vars

\* ---- updates of tenant records ----

\* The admin of tB, a user who is admin of tB and end user of tA, and the
\* platform admin patch the tenant a path id names, with or without a tenant
\* header.
NextTenant ==
    \E u \in {"uB", "uE", "uP"}, header \in HeaderValues, id \in PathTenantIds, body \in TenantPatches :
        PatchTenant(u, header, id, body)
SpecTenant == InitServer /\ [][NextTenant]_vars

-----------------------------------------------------------------------------
(* C1: tenant isolation on reads.                                          *)

\* The tenants a user is a member of.
TenantsOf(u) == { m.tenantId : m \in loadUserContext(u) }

\* C1: a response of a read endpoint to a user who is no platform admin
\* never carries an entity of a tenant the user is not a member of, for
\* every choice of path, header and query tenant id.
C1_TenantIsolation ==
    (resp.op \in {"GetTenant", "GetDashboardSummary", "ListDevices", "GetDevice"}
     /\ ~isPlatformAdmin(loadUserContext(resp.user)))
    => \A e \in resp.data : e.tenantId \in TenantsOf(resp.user)

-----------------------------------------------------------------------------
(* C6: the device token.                                                   *)

\* C6: authenticateDevice accepts a bearer token only if it is exactly
\* <deviceId>:<hex(HMAC(secret, deviceId))>; every other digest string for
\* the device id is rejected with UNAUTHORIZED, and the token that device
\* registration returns is accepted for that device id and no other.
C6_ExactTokenOnly ==
    /\ authOut.code = "OK"
       => /\ authIn.hasBearer
          /\ authIn.token = authOut.deviceId \o <<":">> \o HexEncode(Hmac(authOut.deviceId))
    /\ \A d \in DeviceIds :
          (authOut # NoOutcome /\ authIn.hasBearer /\ authIn.token = DeviceToken(d))
          => authOut = [code |-> "OK", deviceId |-> <<d>>]

-----------------------------------------------------------------------------
(* C2: one live alert per dedupe key.                                      *)

\* The AlertEvents of a dedupe key that are OPEN or ACKNOWLEDGED.
LiveAlerts(key) ==
    { a \in 1..Len(alerts) :
        alerts[a].dedupeKey = key /\ alerts[a].status \in {"OPEN", "ACKNOWLEDGED"} }

\* C2: in every reachable state, for every device D and rule R at most one
\* AlertEvent with dedupeKey "D:R" is OPEN or ACKNOWLEDGED, under any
\* interleaving of evaluator sweeps and user ack/close calls.
C2_OneLiveAlertPerKey ==
    \A d \in DeviceIds : \A r \in 1..Len(rules) :
        Cardinality(LiveAlerts(DedupeKey(d, rules[r].id))) <= 1

\* A sweep is about to insert an alert for a key that another sweep has
\* inserted since this one looked: the key has a live alert already.
C2_Witness ==
    \E s \in Slots :
        /\ sweeps[s].stage = "create"
        /\ LiveAlerts(DedupeKey(Head(sweeps[s].work).deviceId,
                                rules[Head(sweeps[s].work).rule].id)) # {}

-----------------------------------------------------------------------------
(* C3, C4, C5: the command queue as a device sees it.                      *)

\* The ids a completed poll returned.
Returned(k) == { pollLog[k].rows[j] : j \in 1..Len(pollLog[k].rows) }

\* Everything the polls of a device returned, in the order the polls
\* completed (the first k responses).
RECURSIVE Observed(_, _)
Observed(deviceId, k) ==
    IF k = 0 THEN <<>>
    ELSE Observed(deviceId, k - 1)
         \o (IF pollLog[k].deviceId = deviceId THEN pollLog[k].rows ELSE <<>>)

\* C3: a command that some /pending poll has returned has status DELIVERED,
\* ACKED or FAILED in every later state; it is never QUEUED again.
C3_PolledNeverQueued ==
    \A k \in 1..Len(pollLog) : \A c \in Returned(k) :
        commands[c].status \in {"DELIVERED", "ACKED", "FAILED"}

\* A returned command was acknowledged as FAILED while a second poll that had
\* read it as QUEUED was still to write.
C3_Witness ==
    \E k \in 1..Len(pollLog) : \E c \in Returned(k) :
        /\ commands[c].status = "FAILED"
        /\ \E p \in Slots : polls[p].stage = "mark" /\ c \in {polls[p].rows[j] : j \in 1..Len(polls[p].rows)}

\* C4: each command is returned by at most one /pending poll, also when
\* two polls of the device are in flight at once.
C4_ReturnedAtMostOnce ==
    \A c \in 1..Len(commands) :
        Cardinality({ k \in 1..Len(pollLog) : c \in Returned(k) }) <= 1

\* C5: the commands a device receives, over all its polls in completion
\* order, are in non-decreasing requestedAt order, also when commands are
\* created while it polls.  Stated for the runs in which no command was
\* returned twice, so that the order alone is at stake.
C5_NonDecreasingRequestedAt ==
    C4_ReturnedAtMostOnce
    => \A d \in DeviceIds :
          LET seen == Observed(d, Len(pollLog)) IN
          \A a, b \in 1..Len(seen) :
              a < b => commands[seen[a]].requestedAt <= commands[seen[b]].requestedAt

-----------------------------------------------------------------------------
(* C7, C8: entitlement resolution and the gate.                            *)

\* C7: checkEntitlement(tenant, key, deviceId?) returns the enabled value of
\* the scope-DEVICE row for (tenant, key, deviceId) if there is one, else
\* that of the scope-TENANT row for (tenant, key) if there is one, else true
\* for BASIC_REMOTE_BOOST and false for every other key.
C7_Resolution ==
    \A t \in Tenants, k \in EntKeys, d \in DeviceIds \cup {NULL} :
        LET deviceRows == { e \in entitlements :
                              /\ e.scope = "DEVICE" /\ e.tenantId = t /\ e.key = k
                              /\ e.deviceId = d }
            tenantRows == { e \in entitlements :
                              e.scope = "TENANT" /\ e.tenantId = t /\ e.key = k }
        IN checkEntitlement(t, k, d) \in
              (IF d # NULL /\ deviceRows # {} THEN { e.enabled : e \in deviceRows }
               ELSE IF tenantRows # {} THEN { e.enabled : e \in tenantRows }
               ELSE { k = "BASIC_REMOTE_BOOST" })

\* C8: a Command row exists for device D only if BASIC_REMOTE_BOOST resolved
\* to true for D's tenant and D when the create was requested, whoever asked
\* and however the tenant was (or was not) named; a create that found it false
\* wrote no Command and no COMMAND_CREATED audit row.
C8_CreateIsGated ==
    /\ \A c \in 1..Len(commands) : commands[c].gate
    /\ \A i \in Slots : creates[i].stage = "insert" => creates[i].gate

-----------------------------------------------------------------------------
(* C9, C10: telemetry ingest.                                              *)

\* C9: no step of a telemetry ingest changes the lat or lon of a Site whose
\* locationLock is true.
C9_LockedSiteNotMoved ==
    [][ \A s \in SiteIds :
          (sites[s].locationLock /\ ingests' # ingests)
          => (sites'[s].lat = sites[s].lat /\ sites'[s].lon = sites[s].lon) ]_vars

\* An ingest call of device d is between its first and its last store write.
IngestInProgress(d) == \E i \in Slots : ingests[i].stage # "idle" /\ ingests[i].deviceId = d

\* C10: whenever no ingest call for device D is in progress, Device.lastSeenAt
\* and DeviceTwin.lastTs are both null, or equal to each other and to the ts
\* of a stored Telemetry row of D.
C10_FanOutIsOneTransaction ==
    \A d \in DeviceIds :
        ~IngestInProgress(d)
        => \/ devices[d].lastSeenAt = NullNum /\ twins[d].lastTs = NullNum
           \/ /\ devices[d].lastSeenAt = twins[d].lastTs
              /\ \E x \in 1..Len(telemetry) :
                    telemetry[x].deviceId = d /\ telemetry[x].ts = twins[d].lastTs

-----------------------------------------------------------------------------
(* C11, C12, C20: the twin and the device row after ingest.                *)

\* C11: whenever no ingest call for device D is in progress there is one
\* Telemetry row per accepted call, and the twin mirrors the most recently
\* written reading of D: every last_<k> of its metrics holds that reading's
\* value, not a value of an earlier write.
C11_TwinReflectsLastWrite ==
    \A d \in DeviceIds :
        (~IngestInProgress(d) /\ RowsOf(d) # {})
        => LET x == CHOOSE r \in RowsOf(d) : \A y \in RowsOf(d) : y <= r
               last == twins[d].derivedState.last
           IN /\ (\A i \in Slots : ingests[i] = Idle) => Len(telemetry) = ingestCount
              /\ \A k \in DOMAIN telemetry[x].metrics :
                    Has(last, k) /\ last[k] = telemetry[x].metrics[k]

\* C12: when an ingest call whose ts was later than the lastSeenAt its
\* device write replaced returns, Device.lastSeenAt and DeviceTwin.lastTs
\* equal that ts and the twin is online.
C12_LastSeenIsTs ==
    [][ \A i \in Slots :
          (ingests[i].stage = "site" /\ ingests'[i] = Idle /\ ingests[i].advances)
          => /\ devices'[ingests[i].deviceId].lastSeenAt = ingests[i].ts
             /\ twins'[ingests[i].deviceId].lastTs = ingests[i].ts
             /\ twins'[ingests[i].deviceId].derivedState.isOnline ]_vars

-----------------------------------------------------------------------------
(* C13, C14: the life cycle of an AlertEvent.                              *)

\* C13: when a sweep has found the predicate of rule R true for device D and
\* every AlertEvent with dedupeKey "D:R" is CLOSED (and there is one), its
\* insert step adds a new AlertEvent with status OPEN for that key.
C13_ClosedDoesNotBlock ==
    [][ \A s \in Slots :
          (/\ sweeps[s].stage = "create"
           /\ sweeps'[s] # sweeps[s]
           /\ LET key == DedupeKey(Head(sweeps[s].work).deviceId,
                                   rules[Head(sweeps[s].work).rule].id)
              IN /\ \E a \in 1..Len(alerts) : alerts[a].dedupeKey = key
                 /\ \A a \in 1..Len(alerts) :
                       alerts[a].dedupeKey = key => alerts[a].status = "CLOSED")
          => /\ Len(alerts') = Len(alerts) + 1
             /\ alerts'[Len(alerts')].status = "OPEN"
             /\ alerts'[Len(alerts')].dedupeKey =
                   DedupeKey(Head(sweeps[s].work).deviceId,
                             rules[Head(sweeps[s].work).rule].id) ]_vars

\* C14: every change an ack or close call makes to an AlertEvent is
\* OPEN -> ACKNOWLEDGED with acknowledgedAt set, or OPEN or ACKNOWLEDGED ->
\* CLOSED with closedAt set; a CLOSED event never becomes ACKNOWLEDGED or
\* OPEN again.
C14_AckCloseTransitions ==
    [][ \A a \in 1..Len(alerts) :
          alerts'[a] # alerts[a]
          => \/ /\ alerts[a].status = "OPEN"
                /\ alerts'[a].status = "ACKNOWLEDGED"
                /\ alerts'[a].acknowledgedAt = clock
             \/ /\ alerts[a].status \in {"OPEN", "ACKNOWLEDGED"}
                /\ alerts'[a].status = "CLOSED"
                /\ alerts'[a].closedAt = clock ]_vars

-----------------------------------------------------------------------------
(* C15: the evaluator is idempotent.                                       *)

\* C15: over a fleet that nothing else changes, a run of evaluateAlerts that
\* starts after an earlier run has returned inserts no AlertEvent and no
\* NotificationEvent: two runs leave what one run leaves.
C15_SecondRunCreatesNone ==
    [][ sweeps[2].stage # "idle"
        => (alerts' = alerts /\ notifications' = notifications) ]_vars

\* The second run has gone through every pair of a fleet in which the first
\* run opened an alert.
C15_Witness ==
    /\ sweeps[2].stage = "check" /\ sweeps[2].work = <<>>
    /\ \E a \in 1..Len(alerts) : alerts[a].status = "OPEN"

-----------------------------------------------------------------------------
(* C16, C17, C18: tenancy and role middlewares.                            *)

\* User u, no platform admin, names tenant t and holds no membership in it.
Foreign(u, t) ==
    t # NoTenant /\ ~isPlatformAdmin(loadUserContext(u)) /\ t \notin TenantsOf(u)

\* C16: a request of a user who is no platform admin and names a tenant in
\* which the user holds no membership is answered FORBIDDEN by
\* enforceTenancy with req.tenantId left unset; on the routes behind it the
\* response carries no data and no Site or AuditLog row is written.
C16_ForeignTenantForbidden ==
    [][ /\ resp'.op = "enforceTenancy"
           => LET named == IF resp'.paramsTenantId # NoTenant THEN resp'.paramsTenantId
                           ELSE IF resp'.header # NoTenant THEN resp'.header
                           ELSE resp'.query
              IN Foreign(resp'.user, named)
                 => (resp'.code = "FORBIDDEN" /\ resp'.tenantId = NULL)
        /\ resp'.op \in {"ListDevices", "GetDevice"}
           => LET named == IF resp'.header # NoTenant THEN resp'.header
                           ELSE IF resp'.op = "ListDevices" THEN resp'.target
                           ELSE NoTenant
              IN Foreign(resp'.user, named)
                 => (resp'.code = "FORBIDDEN" /\ resp'.data = {})
        /\ \A u \in Users, header \in HeaderValues, loc \in UserLocations :
              (Foreign(u, header) /\ PatchSiteLocation(u, header, "s1", loc, "unset"))
              => (resp'.code = "FORBIDDEN" /\ UNCHANGED <<sites, audit>>) ]_vars

\* uB, a member of tB only, named tA in the header and was refused.
C16_Witness ==
    /\ resp.op = "enforceTenancy" /\ resp.user = "uB"
    /\ resp.paramsTenantId = NoTenant /\ resp.header = "tA"
    /\ resp.code = "FORBIDDEN"

\* C17: a request of a user who is no platform admin and supplies no tenant
\* id (no path parameter, no x-tenant-id header, no tenantId query value)
\* fails with FORBIDDEN; a platform admin proceeds without one.
C17_NoTenantForbidden ==
    (/\ resp.op = "enforceTenancy"
     /\ resp.paramsTenantId = NoTenant /\ resp.header = NoTenant /\ resp.query = NoTenant)
    => resp.code = (IF isPlatformAdmin(loadUserContext(resp.user)) THEN "OK" ELSE "FORBIDDEN")

\* C18: requireRoles(S) passes iff the user holds a PLATFORM_ADMIN membership
\* or the user's membership in the active tenant has a role in S; otherwise
\* it fails with FORBIDDEN, also when the role is held in another tenant.
C18_RoleGate ==
    resp.op = "requireRoles"
    => LET mem == loadUserContext(resp.user)
           active == IF resp.reqTenantId # NULL THEN resp.reqTenantId
                     ELSE IF resp.paramsTenantId # NoTenant THEN resp.paramsTenantId
                     ELSE resp.header
       IN /\ resp.code \in {"OK", "FORBIDDEN"}
          /\ resp.code = "OK"
             <=> \/ isPlatformAdmin(mem)
                 \/ \E m \in mem : m.tenantId = active /\ m.role \in resp.roles

\* uE, END_USER in tA and TENANT_ADMIN in tB, met a gate for tenant admins
\* with tA active and was refused.
C18_Witness ==
    /\ resp.op = "requireRoles" /\ resp.user = "uE"
    /\ resp.reqTenantId = "tA" /\ resp.roles = {"PLATFORM_ADMIN", "TENANT_ADMIN"}
    /\ resp.code = "FORBIDDEN"

-----------------------------------------------------------------------------
(* C19, C20: a token used for another device.                              *)

\* C19: on commands/pending, commands/:commandId/ack, ota/pending and
\* ota/report, a request whose path device id differs from the device id of
\* its token is answered FORBIDDEN and changes no Command, OtaJob or Device
\* row (and starts no poll or report that would).
C19_PathMustMatchToken ==
    [][ \A authDevice \in DeviceIds, id \in DeviceIds :
          authDevice # id
          => /\ (\/ \E p \in Slots : PollPendingRead(p, authDevice, id)
                 \/ \E commandId \in CmdIds, status \in {"ACKED", "FAILED"} :
                       AckCommand(authDevice, id, commandId, status)
                 \/ OtaPending(authDevice, id)
                 \/ \E r \in Slots, jobId \in 1..(MaxOtaJobs + 1),
                       status \in {"IN_PROGRESS", "SUCCESS", "FAILED"} :
                       OtaReportBegin(r, authDevice, id, jobId, status, 50))
                => /\ resp'.code = "FORBIDDEN"
                   /\ UNCHANGED <<commands, polls, pollLog, otaJobs, reports,
                                  firmwareVersion, devices, audit>> ]_vars

\* d2 reported on d1's path while d1 had a firmware job and a queued command.
C19_Witness ==
    /\ resp = [op |-> "OtaReport", deviceId |-> "d1", code |-> "FORBIDDEN"]
    /\ otaJobs # <<>>
    /\ \E c \in 1..Len(commands) : commands[c].status = "QUEUED"

\* C20: an ingest whose payload deviceId differs from the device id of its
\* token is answered VALIDATION_ERROR and ends there: no Telemetry row, no
\* change of a Device, DeviceTwin or Site, no audit row, no call left running.
C20_MismatchWritesNothing ==
    [][ \A i \in Slots, authDevice \in PathDeviceIds, deviceId \in PathDeviceIds,
           ts \in 1..MaxTs, metrics \in {[tankTempC |-> 90], [tankTempC |-> 40]},
           geo \in GeoInputs :
          (authDevice # deviceId /\ IngestBegin(i, authDevice, deviceId, ts, metrics, geo))
          => /\ resp' = [op |-> "IngestTelemetry", code |-> "VALIDATION_ERROR"]
             /\ UNCHANGED <<telemetry, devices, twins, sites, audit, ingests,
                            ingestCount>> ]_vars

\* A token of another id named d1 in the payload, while d1 had readings
\* stored and an ingest of its own running, and was refused.
C20_Witness ==
    /\ resp = [op |-> "IngestTelemetry", code |-> "VALIDATION_ERROR"]
    /\ telemetry # <<>>
    /\ \E i \in Slots : ingests[i].stage # "idle"

-----------------------------------------------------------------------------
(* C21: command creation checks the device against the active tenant.     *)

\* C21: a create-command request that has passed the tenancy, role and
\* entitlement gates with an active tenant, for a device id that is no device
\* of that tenant, is answered NOT_FOUND and neither inserts nor prepares a
\* Command; a request that goes on to the insert adds exactly one Command
\* row, with status QUEUED, the acting user as requestedByUserId and the
\* addressed device as deviceId, and leaves the earlier rows as they were.
C21_CreateChecksTenant ==
    [][ /\ \A i \in Slots, u \in Users, id \in PathDeviceIds, header \in HeaderValues :
            LET t == enforceTenancy(u, NoTenant, header, NoTenant) IN
            /\ ( /\ t.code = "OK" /\ t.tenantId # NULL
                 /\ requireEntitlement("BASIC_REMOTE_BOOST", t.tenantId, id) = "OK"
                 /\ (id \notin DeviceIds \/ DeviceTenant[id] # t.tenantId)
                 /\ CreateCommandBegin(i, u, id, header) )
               => /\ resp'.code = "NOT_FOUND"
                  /\ UNCHANGED <<commands, creates, audit>>
            /\ ( /\ creates[i] = Idle /\ creates'[i] # Idle
                 /\ CreateCommandBegin(i, u, id, header) )
               => creates'[i].requestedByUserId = u /\ creates'[i].deviceId = id
        /\ \A i \in Slots :
            CreateCommandInsert(i) =>
                /\ resp'.code = "CREATED"
                /\ Len(commands') = Len(commands) + 1
                /\ SubSeq(commands', 1, Len(commands)) = commands
                /\ commands'[Len(commands')].status = "QUEUED"
                /\ commands'[Len(commands')].requestedByUserId = creates[i].requestedByUserId
                /\ commands'[Len(commands')].deviceId = creates[i].deviceId
      ]_vars

\* A command has been created and a request for d2, a device of tenant tB,
\* made under tenant tA has been answered NOT_FOUND.
C21_Witness ==
    /\ resp.op = "CreateCommand" /\ resp.code = "NOT_FOUND" /\ resp.deviceId = "d2"
    /\ Len(commands) > 0

-----------------------------------------------------------------------------
(* C22: the command state machine.                                         *)

\* C22: a step that leaves a command in status ACKED or FAILED, having
\* changed the row, found it in status DELIVERED; and every command in
\* status ACKED or FAILED has a deliveredAt.
C22_AckOnlyFromDelivered ==
    [][ \A c \in 1..Len(commands) :
          /\ ( /\ commands'[c] # commands[c]
               /\ commands'[c].status \in {"ACKED", "FAILED"} )
             => commands[c].status = "DELIVERED"
          /\ commands'[c].status \in {"ACKED", "FAILED"}
             => commands'[c].deliveredAt # NullNum ]_vars

-----------------------------------------------------------------------------
(* C23: a failed audit write does not fail the operation.                  *)

\* C23: while the store refuses AuditLog rows, every step of an audited
\* operation that changes the Entitlement, Command, Site, OtaJob or
\* AlertEvent table answers with the operation's success code (OK or
\* CREATED), as it does when the row is written, and writes no audit row.
C23_AuditFailureIsSwallowed ==
    [][ ( /\ ~auditUp
          /\ <<entitlements, commands, sites, otaJobs, alerts>>'
                # <<entitlements, commands, sites, otaJobs, alerts>> )
        => /\ resp'.code \in {"OK", "CREATED"}
           /\ resp'.op \in {"PutEntitlement", "CreateCommand", "AckCommand",
                            "PatchSiteLocation", "CreateOtaJob", "IngestTelemetry"}
           /\ audit' = audit ]_vars

\* A command was created and acknowledged and site s1 was given a location,
\* and the store refused the audit row of each.
C23_Witness ==
    /\ ~auditUp /\ audit = {}
    /\ Len(commands) = 1 /\ commands[1].status = "ACKED"
    /\ sites["s1"].lat # NullNum

-----------------------------------------------------------------------------
(* C24: unique-constraint violations answer CONFLICT.                      *)

\* C24: an admitted registration of a firmware version that is already
\* registered, and an admitted registration of a device whose serial number
\* is already used in the tenant - whether the handler's own lookup or the
\* unique index of the store finds the row - is answered CONFLICT and adds no
\* row; no table ever holds two rows with the same key.
C24_UniqueViolationIsConflict ==
    [][ /\ \A u \in Users, header \in HeaderValues, version \in {"v2", "v3"} :
            ( /\ requireRoles({"PLATFORM_ADMIN"}, u, NULL, NoTenant, header) = "OK"
              /\ \E k \in 1..Len(firmware) : firmware[k] = version
              /\ RegisterFirmware(u, header, version) )
            => resp'.code = "CONFLICT" /\ UNCHANGED firmware
        /\ \A i \in Slots :
            ( /\ registers[i].stage = "create"
              /\ \E k \in 1..Len(serials) :
                    serials[k] = [tenantId |-> registers[i].tenantId,
                                  serialNumber |-> registers[i].serialNumber]
              /\ RegisterDeviceCreate(i) )
            => resp'.code = "CONFLICT" /\ UNCHANGED serials
        /\ \A a, b \in 1..Len(serials') : serials'[a] = serials'[b] => a = b
        /\ \A a, b \in 1..Len(firmware') : firmware'[a] = firmware'[b] => a = b
      ]_vars

-----------------------------------------------------------------------------
(* C25: the OVER_TEMP predicate.                                           *)

\* C25: when the run over an OVER_TEMP rule has returned, d1 has an alert iff
\* its twin's lastTankTempC is defined and strictly greater than the rule's
\* thresholdC, which is 85 when the rule has no such parameter; this for
\* every value and every threshold, 0 and negative ones included.
C25_OverTempStrict ==
    (sweeps[1] = Idle /\ rules[1].type = "OVER_TEMP")
    => LET t == twins["d1"].derivedState.lastTankTempC
           thresholdC == IF "thresholdC" \in DOMAIN rules[1].params
                         THEN rules[1].params.thresholdC ELSE 85
       IN (alerts # <<>>) <=> (t # NullNum /\ t > thresholdC)

-----------------------------------------------------------------------------
(* C26: the SENSOR_OUT_OF_RANGE predicate.                                 *)

\* C26: when the run over a SENSOR_OUT_OF_RANGE rule has returned, d1 has an
\* alert iff every one of the rows read - the most recent repeatCount
\* readings of d1, or all of them when there are fewer - has a value of the
\* metric that is strictly below min or strictly above max.
C26_EveryRowReadOutOfRange ==
    (sweeps[1] = Idle /\ rules[1].type = "SENSOR_OUT_OF_RANGE")
    => LET p == rules[1].params
           metric == IF "metric" \in DOMAIN p THEN p.metric ELSE "tankTempC"
           min == IF "min" \in DOMAIN p THEN p.min ELSE -10
           max == IF "max" \in DOMAIN p THEN p.max ELSE 120
           repeatCount == IF "repeatCount" \in DOMAIN p THEN p.repeatCount ELSE 3
           read == { k \in 1..Len(telemetry) : k > Len(telemetry) - repeatCount }
       IN (alerts # <<>>)
          <=> \A k \in read :
                 /\ metric \in DOMAIN telemetry[k].metrics
                 /\ \/ telemetry[k].metrics[metric] < min
                    \/ telemetry[k].metrics[metric] > max

\* C26, amended: d1 has an alert iff repeatCount rows were read and every one
\* of them has a value of the metric strictly below min or strictly above max.
C26_RepeatCountRowsOutOfRange ==
    (sweeps[1] = Idle /\ rules[1].type = "SENSOR_OUT_OF_RANGE")
    => LET p == rules[1].params
           metric == IF "metric" \in DOMAIN p THEN p.metric ELSE "tankTempC"
           min == IF "min" \in DOMAIN p THEN p.min ELSE -10
           max == IF "max" \in DOMAIN p THEN p.max ELSE 120
           repeatCount == IF "repeatCount" \in DOMAIN p THEN p.repeatCount ELSE 3
           read == { k \in 1..Len(telemetry) : k > Len(telemetry) - repeatCount }
       IN (alerts # <<>>)
          <=> /\ Cardinality(read) = repeatCount
              /\ \A k \in read :
                    /\ metric \in DOMAIN telemetry[k].metrics
                    /\ \/ telemetry[k].metrics[metric] < min
                       \/ telemetry[k].metrics[metric] > max

\* The run raised an alert for a rule that reads two rows, for a device whose
\* third-last reading was in range.
C26_Witness ==
    /\ sweeps[1] = Idle /\ rules[1].type = "SENSOR_OUT_OF_RANGE"
    /\ alerts # <<>>
    /\ "min" \in DOMAIN rules[1].params /\ rules[1].params.repeatCount = 2
    /\ Len(telemetry) = 3 /\ telemetry[1].metrics = [tankTempC |-> 85]

-----------------------------------------------------------------------------
(* C27: an end user sets the location of a site of their own device only.  *)

\* C27: a PATCH of the location of site s1 by a user whose membership in the
\* active tenant, the site's tenant, is END_USER (and who is no platform
\* admin) is answered FORBIDDEN and leaves the Site rows and the audit log as
\* they were when the user owns no device on s1; when the user owns one, it
\* is answered OK and the site has the location sent.
C27_EndUserNeedsOwnDevice ==
    [][ \A u \in Users, header \in HeaderValues, loc \in UserLocations,
           lock \in {"unset", "true", "false"} :
          ( /\ header = SiteTenant["s1"]
            /\ \E m \in Memberships :
                  m.userId = u /\ m.tenantId = header /\ m.role = "END_USER"
            /\ \A m \in Memberships : m.userId = u => m.role # "PLATFORM_ADMIN"
            /\ PatchSiteLocation(u, header, "s1", loc, lock) )
          => IF \E d \in DeviceIds : DeviceSite[d] = "s1" /\ DeviceOwner[d] = u
             THEN /\ resp'.code = "OK"
                  /\ sites'["s1"].lat = loc.lat /\ sites'["s1"].lon = loc.lon
                  /\ sites'["s1"].locationLock =
                        (IF lock = "unset" THEN sites["s1"].locationLock ELSE lock = "true")
                  /\ sites'["s2"] = sites["s2"]
             ELSE /\ resp'.code = "FORBIDDEN"
                  /\ UNCHANGED <<sites, audit>> ]_vars

\* Site s1 has the location its owning end user sent, and the last request,
\* of an end user without a device there, was refused.
C27_Witness ==
    /\ resp = [op |-> "PatchSiteLocation", code |-> "FORBIDDEN"]
    /\ sites["s1"].lat # NullNum
    /\ \E a \in audit : a.actorUserId = "uO" /\ a.action = "SITE_LOCATION_UPDATED"

-----------------------------------------------------------------------------
(* C28: the scope of an Entitlement row and its device id.                 *)

\* C28: every Entitlement row has a device id iff its scope is DEVICE.
C28_DeviceIdIffDeviceScope ==
    \A e \in entitlements : (e.deviceId # NULL) <=> (e.scope = "DEVICE")

-----------------------------------------------------------------------------
(* C29: which ingests move a site.                                         *)

\* C29: the step of an ingest that reconciles the site changes the lat or
\* lon of the device's Site iff the payload has geo, the Site is not
\* location-locked and its lat is null; it changes no other Site, and so a
\* Site whose lat is not null is never moved by an ingest.
C29_IngestMovesOnlyUnsetSites ==
    [][ \A i \in Slots :
          IngestSiteReconcile(i)
          => LET r == ingests[i]
                 s == DeviceSite[r.deviceId]
             IN /\ (sites'[s].lat # sites[s].lat \/ sites'[s].lon # sites[s].lon)
                   <=> ( /\ HasGeo(r.geo)
                         /\ ~sites[s].locationLock
                         /\ sites[s].lat = NullNum )
                /\ \A o \in SiteIds \ {s} : sites'[o] = sites[o] ]_vars

-----------------------------------------------------------------------------
(* C30: two sweeps that race for one dedupe key.                           *)

\* The dedupe key of the pair a sweep is working on.
HeadKey(s) == DedupeKey(Head(sweeps[s].work).deviceId, rules[Head(sweeps[s].work).rule].id)

\* C30: no two AlertEvent rows hold the same dedupe key; a sweep whose insert
\* finds the key taken inserts nothing, enqueues nothing and goes on with the
\* pair after it, while an insert of a free key adds exactly one row; and no
\* step of a sweep drops more than the pair it is working on, or ends the
\* sweep while pairs remain.
C30_LoserContinuesSweep ==
    /\ [](\A a, b \in 1..Len(alerts) : alerts[a].dedupeKey = alerts[b].dedupeKey => a = b)
    /\ [][ \A s \in Slots :
             /\ (sweeps[s].stage = "create" /\ sweeps'[s] # sweeps[s])
                => IF DedupeKeyTaken(HeadKey(s))
                   THEN /\ alerts' = alerts
                        /\ notifications' = notifications
                        /\ sweeps'[s] = [stage |-> "check", work |-> Tail(sweeps[s].work)]
                   ELSE /\ Len(alerts') = Len(alerts) + 1
                        /\ alerts'[Len(alerts')].dedupeKey = HeadKey(s)
                        /\ sweeps'[s].work = sweeps[s].work
             /\ (sweeps[s] # Idle /\ sweeps'[s] # sweeps[s])
                => IF sweeps'[s] = Idle THEN sweeps[s].work = <<>>
                   ELSE sweeps'[s].work \in {sweeps[s].work, Tail(sweeps[s].work)} ]_vars

\* Two sweeps decided to open an alert for the same key; one has inserted
\* its row, the other is at its insert with more pairs left to evaluate.
C30_Witness ==
    \E s, t \in Slots :
        /\ s # t
        /\ sweeps[s].stage = "notify"
        /\ sweeps[t].stage = "create"
        /\ HeadKey(s) = HeadKey(t)
        /\ Len(sweeps[t].work) > 1

-----------------------------------------------------------------------------
(* C31, C32: the producer of notifications.                                *)

\* C31: whenever no sweep is in progress, every AlertEvent has a
\* NotificationEvent for each channel that was eligible when it was inserted.
C31_AlertAndNotificationsAtomic ==
    (\A s \in Slots : sweeps[s] = Idle)
    => \A a \in 1..Len(alerts) :
          NotificationsFor(alerts[a].tenantId, a, alerts[a].severity) \subseteq notifications

\* C32: the producer's step for an alert it has opened adds exactly one QUEUED
\* NotificationEvent of that alert for each enabled channel of the alert's
\* tenant that is a WEBHOOK or whose alert is not INFO, and no other row.
C32_ProducerEnqueuesEligible ==
    [][ \A s \in Slots :
          (sweeps[s].stage = "notify" /\ sweeps'[s] # sweeps[s])
          => \E a \in 1..Len(alerts) :
                /\ alerts[a].dedupeKey = HeadKey(s)
                /\ notifications \cap { n \in notifications' : n.alertEventId = a } = {}
                /\ notifications' \ notifications =
                      { [tenantId |-> alerts[a].tenantId, channelId |-> c.id,
                         alertEventId |-> a, status |-> "QUEUED"] :
                        c \in { x \in NotificationChannels :
                                  /\ x.tenantId = alerts[a].tenantId
                                  /\ x.enabled
                                  /\ x.type = "WEBHOOK" \/ alerts[a].severity # "INFO" } } ]_vars

\* An INFO alert of tenant tA, which has an enabled WEBHOOK, an enabled EMAIL
\* and a disabled SMS channel, has been opened and its notifications enqueued.
C32_Witness ==
    \E a \in 1..Len(alerts) :
        /\ alerts[a].tenantId = "tA"
        /\ alerts[a].severity = "INFO"
        /\ \E n \in notifications : n.alertEventId = a
        /\ \A s \in Slots : sweeps[s].stage # "notify"

-----------------------------------------------------------------------------
(* C33, C40: the notification consumer.                                    *)

\* C33: a run of the consumer takes at most TakeLimit QUEUED events and takes
\* them oldest-first: no QUEUED event it leaves out is older than one it takes.
C33_OldestFirstAtMostLimit ==
    [][ \A r \in Slots :
          (runs[r] = Idle /\ runs'[r] # Idle)
          => /\ Cardinality(runs'[r].batch) <= TakeLimit
             /\ \A e \in runs'[r].batch : outbox[e].status = "QUEUED"
             /\ \A e \in runs'[r].batch :
                   \A o \in (1..Len(outbox)) \ runs'[r].batch :
                      outbox[o].status = "QUEUED"
                      => outbox[o].createdAt > outbox[e].createdAt ]_vars

\* C40: the channel adapter of a NotificationEvent is invoked at most once,
\* and an event that is SENT or FAILED was handled exactly once, whatever
\* runs of the consumer overlap.
C40_EachEventHandledOnce ==
    \A e \in 1..Len(outbox) :
        /\ outbox[e].invoked <= 1
        /\ outbox[e].status \in {"SENT", "FAILED"} => outbox[e].invoked = 1
        /\ outbox[e].status = "SENT" => outbox[e].sentAt # NullNum
        /\ outbox[e].status = "FAILED" => outbox[e].errorMsg # NULL

-----------------------------------------------------------------------------
(* C34: the OTA pull of a device.                                          *)

\* C34: a successful pull of device D answers a job of D's tenant that is
\* SCHEDULED or IN_PROGRESS and targets D or a group, with no such job
\* scheduled earlier, and answers null exactly when there is no such job.
C34_PullReturnsEarliestOwnJob ==
    (resp.op = "OtaPending" /\ resp.code = "OK")
    => LET D == resp.deviceId
           mine == { j \in 1..Len(otaJobs) :
                       /\ otaJobs[j].tenantId = DeviceTenant[D]
                       /\ otaJobs[j].status \notin {"SUCCESS", "FAILED", "CANCELED"}
                       /\ otaJobs[j].targetType = "DEVICE" => otaJobs[j].deviceId = D }
       IN IF mine = {} THEN resp.job = 0
          ELSE /\ resp.job \in mine
               /\ \A k \in mine : otaJobs[resp.job].scheduledAt <= otaJobs[k].scheduledAt

\* The pull answered the second job, scheduled before the first, while the
\* first is a pending job of the device too.
C34_Witness ==
    /\ resp.op = "OtaPending" /\ resp.code = "OK" /\ resp.job = 2
    /\ otaJobs[1].tenantId = DeviceTenant[resp.deviceId]
    /\ otaJobs[1].status = "IN_PROGRESS"
    /\ otaJobs[1].targetType = "DEVICE" /\ otaJobs[1].deviceId = resp.deviceId
    /\ otaJobs[2].scheduledAt < otaJobs[1].scheduledAt

-----------------------------------------------------------------------------
(* C35, C36, C37: reports of a device on an OTA job.                       *)

\* C35: a report sets SUCCESS or FAILED with finishedAt, a report of
\* IN_PROGRESS changes the status of a SCHEDULED job only, and once a job is
\* SUCCESS, FAILED or CANCELED no report changes its status or finishedAt.
C35_TerminalJobsStay ==
    [][ \A r \in Slots :
          (reports[r].stage = "update" /\ reports'[r] # reports[r])
          => LET j == reports[r].jobId
                 terminal == otaJobs[j].status \in {"SUCCESS", "FAILED", "CANCELED"}
             IN /\ terminal => /\ otaJobs'[j].status = otaJobs[j].status
                               /\ otaJobs'[j].finishedAt = otaJobs[j].finishedAt
                /\ (~terminal /\ reports[r].status \in {"SUCCESS", "FAILED"})
                   => /\ otaJobs'[j].status = reports[r].status
                      /\ otaJobs'[j].finishedAt = clock
                /\ (~terminal /\ reports[r].status = "IN_PROGRESS")
                   => otaJobs'[j].status = "IN_PROGRESS"
                /\ (reports[r].status = "IN_PROGRESS" /\ otaJobs[j].status # "SCHEDULED")
                   => otaJobs'[j].status = otaJobs[j].status ]_vars

\* C36: the last step of a SUCCESS report of device D on job J leaves
\* D.firmwareVersion at the version of J's firmware package and every other
\* device's as it was; no other step of a report changes a firmwareVersion.
C36_SuccessSetsReporterVersion ==
    [][ /\ \A r \in Slots :
             (reports[r].stage = "firmware" /\ reports'[r] # reports[r])
             => /\ reports[r].status = "SUCCESS"
                /\ firmwareVersion' =
                      [firmwareVersion EXCEPT ![reports[r].deviceId] =
                          FirmwarePackages[otaJobs[reports[r].jobId].firmwarePackageId]]
        /\ (\A r \in Slots : reports[r].stage # "firmware" \/ reports'[r] = reports[r])
           => firmwareVersion' = firmwareVersion ]_vars

\* Device d1 has reported SUCCESS for the second job, whose package is fw2,
\* and runs fw2's version; d2 reported nothing.
C36_Witness ==
    /\ resp.op = "OtaReport" /\ resp.code = "OK" /\ resp.deviceId = "d1"
    /\ otaJobs[2].status = "SUCCESS"
    /\ firmwareVersion["d1"] = FirmwarePackages.fw2
    /\ firmwareVersion["d2"] = NULL
    /\ reports[1] = Idle

\* C37: a report of device D changes an OtaJob only if the job is of D's
\* tenant and targets D or a group.
C37_ReportOnlyOwnJobs ==
    [][ \A r \in Slots :
          (reports[r].stage = "update" /\ reports'[r] # reports[r])
          => \A j \in 1..Len(otaJobs) :
                otaJobs'[j] # otaJobs[j]
                => /\ otaJobs[j].tenantId = DeviceTenant[reports[r].deviceId]
                   /\ otaJobs[j].targetType = "DEVICE"
                      => otaJobs[j].deviceId = reports[r].deviceId ]_vars

-----------------------------------------------------------------------------
(* C38: who may update a Tenant record.                                    *)

\* C38: a step changes the record of tenant t only for a user who is a
\* platform admin or holds the TENANT_ADMIN role in t.
C38_OnlyOwnTenantAdminUpdates ==
    [][ \A t \in Tenants :
          tenants'[t] # tenants[t]
          => /\ resp'.op = "PatchTenant"
             /\ \/ isPlatformAdmin(loadUserContext(resp'.user))
                \/ \E m \in Memberships :
                      /\ m.userId = resp'.user
                      /\ m.tenantId = t
                      /\ m.role = "TENANT_ADMIN" ]_vars

-----------------------------------------------------------------------------
(* C39: ACKED and FAILED are final for a command.                          *)

\* C39: no step changes the status or the ackAt of a command that is ACKED
\* or FAILED, whatever acknowledgements and polls interleave.
C39_AckedAndFailedAreTerminal ==
    [][ \A c \in 1..Len(commands) :
          commands[c].status \in {"ACKED", "FAILED"}
          => /\ commands'[c].status = commands[c].status
             /\ commands'[c].ackAt = commands[c].ackAt ]_vars

=========================================================================
